---- MODULE Spec2Model ----
(***************************************************************************)
(* Model of the Atlassian Teams Terraform provider: the HTTP client        *)
(* (AtlassianClient) and the team resource lifecycle (TeamResource).       *)
(*                                                                         *)
(* Strings are TLA+ strings and are concatenated as the Go code does.      *)
(* A JSON object is a function from its keys to values.  An HTTP answer is *)
(* a record [status, raw, decodes, json]: status 0 stands for a transport  *)
(* failure (HTTPClient.Do returned an error, raw is the error text), raw   *)
(* is the body text the code puts into error messages, decodes says        *)
(* whether the JSON decoder accepts the body and json is the decoded       *)
(* object.                                                                 *)
(***************************************************************************)
EXTENDS Integers, Sequences, FiniteSets, TLC

VARIABLES
    client,   \* the AtlassianClient handed to the resource (ProviderData)
    remote,   \* server side: the team ids that currently exist
    state,    \* the tracked state of the resource (NoState when absent)
    diags,    \* diagnostics of the last operation: errors and warnings
    sent,     \* HTTP requests issued by the last operation, in order
    last      \* what the last operation was, its inputs and its outcome

vars == <<client, remote, state, diags, sent, last>>

----------------------------------------------------------------------------
(* Values of the framework's types.String: null, unknown or a string.      *)

Null == "<null>"
Unknown == "<unknown>"

\* types.String.ValueString(): "" for null and unknown
ValueString(v) == IF v = Null \/ v = Unknown THEN "" ELSE v

\* types.Set of member objects: null, unknown or a set of account ids
MembersNull == {Null}
MembersUnknown == {Unknown}

NoState == [absent |-> TRUE]

----------------------------------------------------------------------------
(* Bounds of the model.                                                    *)

\* number of ids in the small bulk batches that are enumerated element-wise
MaxSmallBatch == 3
\* how far above a documented limit the oversized batches go
OverLimit == 1

(* Program constants.                                                      *)
MaxBulkTeams == 100
DocMaxMembers == 50

\* the length limits written next to the fields of the request structs
DocMaxDisplayName == 250
DocMaxDescription == 360

RECURSIVE Repeat(_, _)
Repeat(str, n) ==
    IF n = 0 THEN ""
    ELSE LET half == Repeat(str, n \div 2)
         IN IF n % 2 = 0 THEN half \o half ELSE half \o half \o str

TeamIds == {"T1", "T2"}
DisplayNames == {"Dev Team", "Dev Team v2"}
Descriptions == {"", "about"}
SiteIds == {Null, "site-1"}

\* display names and descriptions outside the documented lengths
OutOfRangeDisplayNames == {"", Repeat("n", DocMaxDisplayName + OverLimit)}
OutOfRangeDescriptions == {Repeat("d", DocMaxDescription + OverLimit)}

\* team_type values a configuration may carry
ConfigTeamTypes ==
    {"OPEN", "MEMBER_INVITE", "EXTERNAL", "ORG_ADMIN_MANAGED",
     "CLOSED", "INVALID", "PUBLIC"}

\* declared member sets (account ids); null when the attribute is not set
DeclaredMembers == {MembersNull, {"A", "B"}, {"A", "C"}}

\* what the server reports for a team that was changed remotely
RemoteDisplayName == "Renamed Team"
RemoteDescriptions == {"remote"}
RemoteTeamType == "MEMBER_INVITE"
RemoteState == "ARCHIVED"

----------------------------------------------------------------------------
(* The client.                                                             *)

NewAtlassianClient(apiToken, email, organization, siteId, orgId, baseURL) ==
    [APIToken |-> apiToken, Email |-> email, Organization |-> organization,
     SiteId |-> siteId, OrgId |-> orgId, BaseURL |-> baseURL]

DefaultBaseURL == "https://api.atlassian.com"

\* the clients the resource may be handed
Clients ==
    { NewAtlassianClient("tok", "", organization, siteId, "org-1", DefaultBaseURL) :
        organization \in {"legacy"}, siteId \in {"site-9"} }

NoBody == [nobody |-> TRUE]

\* a makeRequestWithHeaders that sets the default Accept whatever the
\* custom headers are
makeRequestWithHeadersFixedAccept(c, method, path, body, customHeaders) ==
    [method |-> method, url |-> c.BaseURL \o path, body |-> body,
     headers |-> [Authorization |-> "Bearer " \o c.APIToken,
                  ContentType |-> "application/json",
                  Accept |-> "application/json"]]

\* the request makeRequestWithHeaders hands to HTTPClient.Do; customHeaders
\* is a function from header names to values (<<>> for nil)
makeRequestWithHeaders(c, method, path, body, customHeaders) ==
    LET default == [Authorization |-> "Bearer " \o c.APIToken,
                    ContentType |-> "application/json"]
        withAccept ==
            IF "Accept" \notin DOMAIN customHeaders \/ customHeaders["Accept"] = ""
            THEN default @@ [Accept |-> "application/json"]
            ELSE default
        \* req.Header.Set(key, value) replaces the value of key
        headers == [k \in DOMAIN withAccept \cup DOMAIN customHeaders |->
                       IF k \in DOMAIN customHeaders THEN customHeaders[k]
                       ELSE withAccept[k]]
    IN [method |-> method, url |-> c.BaseURL \o path, body |-> body,
        headers |-> headers]

NoHeaders == [k \in {} |-> ""]

makeRequest(c, method, path, body) ==
    makeRequestWithHeaders(c, method, path, body, NoHeaders)

\* the error makeRequestWithHeaders returns when HTTPClient.Do fails
makeRequestError(ans) == "error making request: " \o ans.raw

\* a getTeamAPIPath that prefers the legacy organization name
getTeamAPIPathLegacyFirst(c, endpoint) ==
    LET orgIdentifier == IF c.Organization = "" THEN c.OrgId ELSE c.Organization
    IN "/public/teams/v1/org/" \o orgIdentifier \o endpoint

getTeamAPIPath(c, endpoint) ==
    LET orgIdentifier == IF c.OrgId = "" THEN c.Organization ELSE c.OrgId
    IN "/public/teams/v1/org/" \o orgIdentifier \o endpoint

getTeamAPIPathWithQuery(c, endpoint, siteId) ==
    LET basePath == getTeamAPIPath(c, endpoint)
    IN IF siteId # "" THEN basePath \o "?siteId=" \o siteId ELSE basePath

\* http.Response.Status: the status code followed by its text
StatusLine(status) ==
    CASE status = 200 -> "200 OK"
      [] status = 201 -> "201 Created"
      [] status = 204 -> "204 No Content"
      [] status = 400 -> "400 Bad Request"
      [] status = 403 -> "403 Forbidden"
      [] status = 404 -> "404 Not Found"
      [] status = 410 -> "410 Gone"
      [] status = 413 -> "413 Request Entity Too Large"
      [] status = 415 -> "415 Unsupported Media Type"
      [] status = 422 -> "422 Unprocessable Entity"
      [] status = 500 -> "500 Internal Server Error"
      [] OTHER -> ToString(status)

NoErr == "<noerr>"
NoVal == [noval |-> TRUE]

\* the result of a client call: the requests it issued, its error (NoErr for
\* nil) and the value it returned
Result(reqs, err, val) == [reqs |-> reqs, err |-> err, val |-> val]

----------------------------------------------------------------------------
(* JSON encoding of the request structs (struct tags of the client).       *)

\* json.Marshal of a struct: fields is the struct, keys maps each field to
\* its JSON key and omitempty is the set of fields tagged omitempty
Marshal(fields, keys, omitempty) ==
    LET kept == { f \in DOMAIN fields : ~(f \in omitempty /\ fields[f] = "") }
    IN [k \in { keys[f] : f \in kept } |->
           fields[CHOOSE f \in kept : keys[f] = k]]

MarshalCreateTeamRequest(team) ==
    Marshal(team,
            [DisplayName |-> "displayName", Description |-> "description",
             TeamType |-> "teamType", SiteId |-> "siteId"],
            {"SiteId"})

\* an update request serialized with the creation payload's shape
MarshalUpdateTeamRequestAsCreate(updateReq) ==
    Marshal(updateReq @@ [TeamType |-> ""],
            [DisplayName |-> "displayName", Description |-> "description",
             TeamType |-> "teamType"],
            {})

MarshalUpdateTeamRequest(updateReq) ==
    Marshal(updateReq,
            [DisplayName |-> "displayName", Description |-> "description"],
            {"DisplayName", "Description"})

----------------------------------------------------------------------------
(* HTTP answers and JSON decoding.                                         *)

NoJson == [k \in {} |-> ""]

TextAnswer(status, raw) ==
    [status |-> status, raw |-> raw, decodes |-> FALSE, json |-> NoJson]

JsonAnswer(status, json) ==
    [status |-> status, raw |-> "{json}", decodes |-> TRUE, json |-> json]

\* HTTPClient.Do failed: no status is known
TransportFailure == TextAnswer(0, "timeout")

Statuses == {200, 201, 204, 403, 404, 410}

\* the statuses the direct calls of GetTeam and UpdateTeam are answered with
AllStatuses == Statuses \cup {400, 413, 415, 422, 500}

\* a decoded string field: the zero value when the key is missing
JsonString(json, key) == IF key \in DOMAIN json THEN json[key] ELSE ""

\* a decoded []TeamMember field: nil when the key is missing
JsonMembers(json, key) ==
    IF key \in DOMAIN json
    THEN [isNil |-> FALSE,
          elems |-> [i \in 1..Len(json[key]) |->
                        [AccountID |-> JsonString(json[key][i], "accountId")]]]
    ELSE [isNil |-> TRUE, elems |-> <<>>]

DecodeTeamResponse(json) ==
    [TeamID |-> JsonString(json, "teamId"),
     DisplayName |-> JsonString(json, "displayName"),
     Description |-> JsonString(json, "description"),
     TeamType |-> JsonString(json, "teamType"),
     OrganizationId |-> JsonString(json, "organizationId"),
     CreatorId |-> JsonString(json, "creatorId"),
     State |-> JsonString(json, "state")]

DecodeTeamResponseWithMembers(json) ==
    DecodeTeamResponse(json) @@ [Members |-> JsonMembers(json, "members")]

\* the text of the JSON decoder's error on a body that is not JSON, for the
\* texts the answers of the model carry: the end of the input for an empty
\* body; the first byte when no JSON value begins with it ("denied"); the
\* byte at which a literal breaks off when the body begins like true
\* ("timeout" fails on its second byte)
DecodeErrorText(raw) ==
    CASE raw = "" -> "EOF"
      [] raw = "denied" -> "invalid character 'd' looking for beginning of value"
      [] raw = "timeout" -> "invalid character 'i' in literal true (expecting 'r')"

----------------------------------------------------------------------------
(* Team operations of the client.  ans is the answer of the server to the  *)
(* request the operation issues.                                           *)

\* a CreateTeam that sends the request again when the transport fails
CreateTeamRetrying(c, team, ans) ==
    LET req == makeRequest(c, "POST", getTeamAPIPath(c, "/teams/"),
                           MarshalCreateTeamRequest(team))
    IN IF ans.status = 0
       THEN Result(<<req, req>>, "error creating team: " \o makeRequestError(ans),
                   NoVal)
       ELSE IF ans.status # 201 /\ ans.status # 200
       THEN Result(<<req>>, "API error creating team: " \o StatusLine(ans.status)
                               \o " - " \o ans.raw, NoVal)
       ELSE IF ~ans.decodes
       THEN Result(<<req>>, "error decoding response: "
                               \o DecodeErrorText(ans.raw), NoVal)
       ELSE Result(<<req>>, NoErr, DecodeTeamResponseWithMembers(ans.json))

CreateTeam(c, team, ans) ==
    LET req == makeRequest(c, "POST", getTeamAPIPath(c, "/teams/"),
                           MarshalCreateTeamRequest(team))
    IN IF ans.status = 0
       THEN Result(<<req>>, "error creating team: " \o makeRequestError(ans), NoVal)
       ELSE IF ans.status # 201 /\ ans.status # 200
       THEN Result(<<req>>, "API error creating team: " \o StatusLine(ans.status)
                               \o " - " \o ans.raw, NoVal)
       ELSE IF ~ans.decodes
       THEN Result(<<req>>, "error decoding response: "
                               \o DecodeErrorText(ans.raw), NoVal)
       ELSE Result(<<req>>, NoErr, DecodeTeamResponseWithMembers(ans.json))

\* a GetTeam that does not tell 404 apart from the other statuses
GetTeamNoNotFound(c, teamID, ans) ==
    LET path == getTeamAPIPathWithQuery(c, "/teams/" \o teamID, c.SiteId)
        req == makeRequest(c, "GET", path, NoBody)
    IN IF ans.status = 0
       THEN Result(<<req>>, "error getting team: " \o makeRequestError(ans), NoVal)
       ELSE IF ans.status # 200
       THEN Result(<<req>>, "API error getting team: " \o StatusLine(ans.status)
                               \o " - " \o ans.raw, NoVal)
       ELSE IF ~ans.decodes
       THEN Result(<<req>>, "error decoding response: "
                               \o DecodeErrorText(ans.raw), NoVal)
       ELSE Result(<<req>>, NoErr, DecodeTeamResponse(ans.json))

GetTeam(c, teamID, ans) ==
    LET path == getTeamAPIPathWithQuery(c, "/teams/" \o teamID, c.SiteId)
        req == makeRequest(c, "GET", path, NoBody)
    IN IF ans.status = 0
       THEN Result(<<req>>, "error getting team: " \o makeRequestError(ans), NoVal)
       ELSE IF ans.status = 404
       THEN Result(<<req>>, "team not found: " \o teamID, NoVal)
       ELSE IF ans.status # 200
       THEN Result(<<req>>, "API error getting team: " \o StatusLine(ans.status)
                               \o " - " \o ans.raw, NoVal)
       ELSE IF ~ans.decodes
       THEN Result(<<req>>, "error decoding response: "
                               \o DecodeErrorText(ans.raw), NoVal)
       ELSE Result(<<req>>, NoErr, DecodeTeamResponse(ans.json))

UpdateTeam(c, teamID, updateReq, ans) ==
    LET req == makeRequest(c, "PATCH", getTeamAPIPath(c, "/teams/" \o teamID),
                           MarshalUpdateTeamRequest(updateReq))
    IN IF ans.status = 0
       THEN Result(<<req>>, "error updating team: " \o makeRequestError(ans), NoVal)
       ELSE IF ans.status = 404
       THEN Result(<<req>>, "team not found: " \o teamID, NoVal)
       ELSE IF ans.status # 200
       THEN Result(<<req>>, "API error updating team: " \o StatusLine(ans.status)
                               \o " - " \o ans.raw, NoVal)
       ELSE IF ~ans.decodes
       THEN Result(<<req>>, "error decoding response: "
                               \o DecodeErrorText(ans.raw), NoVal)
       ELSE Result(<<req>>, NoErr, DecodeTeamResponse(ans.json))

\* a DeleteTeam without the special case for 404
DeleteTeamStrict(c, teamID, ans) ==
    LET req == makeRequest(c, "DELETE", getTeamAPIPath(c, "/teams/" \o teamID), NoBody)
    IN IF ans.status = 0
       THEN Result(<<req>>, "error deleting team: " \o makeRequestError(ans), NoVal)
       ELSE IF ans.status # 204 /\ ans.status # 200
       THEN Result(<<req>>, "API error deleting team: " \o StatusLine(ans.status)
                               \o " - " \o ans.raw, NoVal)
       ELSE Result(<<req>>, NoErr, NoVal)

DeleteTeam(c, teamID, ans) ==
    LET req == makeRequest(c, "DELETE", getTeamAPIPath(c, "/teams/" \o teamID), NoBody)
    IN IF ans.status = 0
       THEN Result(<<req>>, "error deleting team: " \o makeRequestError(ans), NoVal)
       ELSE IF ans.status = 404
       THEN Result(<<req>>, NoErr, NoVal)
       ELSE IF ans.status # 204 /\ ans.status # 200
       THEN Result(<<req>>, "API error deleting team: " \o StatusLine(ans.status)
                               \o " - " \o ans.raw, NoVal)
       ELSE Result(<<req>>, NoErr, NoVal)

----------------------------------------------------------------------------
(* The team resource.                                                      *)

Diag(summary, detail) == [summary |-> summary, detail |-> detail]

\* the team_type validator of the schema with the former enum left in
TeamTypeOneOfWithClosed(value) ==
    value \in {"OPEN", "MEMBER_INVITE", "EXTERNAL", "ORG_ADMIN_MANAGED", "CLOSED"}

\* stringvalidator.OneOf of the team_type attribute
TeamTypeOneOf(value) ==
    value \in {"OPEN", "MEMBER_INVITE", "EXTERNAL", "ORG_ADMIN_MANAGED"}

\* the configurations of a team resource: the attributes the schema lets the
\* user set (display_name, description, team_type required; site_id and
\* members optional): every team type with the plainest team, and every
\* other attribute with an OPEN team
Configs ==
    { cfg \in [display_name : DisplayNames, description : Descriptions,
               team_type : ConfigTeamTypes, site_id : SiteIds,
               members : DeclaredMembers] :
        \/ cfg.team_type = "OPEN"
        \/ /\ cfg.display_name = "Dev Team" /\ cfg.description = ""
           /\ cfg.site_id = Null /\ cfg.members = MembersNull }

\* configurations of a plain OPEN team whose display name and description
\* have any length, inside or outside the documented range
LengthConfigs ==
    [display_name : {"Dev Team"} \cup OutOfRangeDisplayNames,
     description : {""} \cup OutOfRangeDescriptions,
     team_type : {"OPEN"}, site_id : {Null}, members : {MembersNull}]

\* the plan the framework derives from a configuration: computed attributes
\* without a configured value are unknown, id keeps its state value
\* (UseStateForUnknown)
PlanOf(cfg, id) ==
    [id |-> id,
     display_name |-> cfg.display_name,
     description |-> cfg.description,
     team_type |-> cfg.team_type,
     site_id |-> cfg.site_id,
     organization_id |-> Unknown,
     creator_id |-> Unknown,
     state |-> Unknown,
     members |-> IF cfg.members = MembersNull THEN MembersUnknown ELSE cfg.members]

\* the outcome of a handler: the state the response carries, the
\* diagnostics and the requests issued
Outcome(st, errors, warnings, reqs) ==
    [state |-> st, errors |-> errors, warnings |-> warnings, reqs |-> reqs]

\* a Create that saves the plan with the identifier only
TeamResourceCreateIdOnly(c, plan, ans) ==
    LET createReq == [DisplayName |-> ValueString(plan.display_name),
                      Description |-> ValueString(plan.description),
                      TeamType |-> ValueString(plan.team_type),
                      SiteId |-> ValueString(plan.site_id)]
        res == CreateTeam(c, createReq, ans)
        team == res.val
    IN IF res.err # NoErr
       THEN Outcome(NoState,
                    <<Diag("Client Error",
                           "Unable to create team, got error: " \o res.err)>>,
                    <<>>, res.reqs)
       ELSE Outcome([plan EXCEPT !.id = team.TeamID], <<>>, <<>>, res.reqs)

TeamResourceCreate(c, plan, ans) ==
    LET createReq == [DisplayName |-> ValueString(plan.display_name),
                      Description |-> ValueString(plan.description),
                      TeamType |-> ValueString(plan.team_type),
                      SiteId |-> ValueString(plan.site_id)]
        res == CreateTeam(c, createReq, ans)
        team == res.val
        data == [plan EXCEPT
                   !.id = team.TeamID,
                   !.organization_id = team.OrganizationId,
                   !.creator_id = team.CreatorId,
                   !.state = team.State,
                   !.members = IF ~team.Members.isNil
                               THEN { team.Members.elems[i].AccountID :
                                        i \in 1..Len(team.Members.elems) }
                               ELSE @]
    IN IF res.err # NoErr
       THEN Outcome(NoState,
                    <<Diag("Client Error",
                           "Unable to create team, got error: " \o res.err)>>,
                    <<>>, res.reqs)
       ELSE Outcome(data, <<>>, <<>>, res.reqs)

\* a Read that takes the member set to be empty because the response has none
TeamResourceReadClearsMembers(c, prior, ans) ==
    LET res == GetTeam(c, ValueString(prior.id), ans)
        team == res.val
    IN IF res.err # NoErr
       THEN IF res.err = "team not found: " \o ValueString(prior.id)
            THEN Outcome(NoState, <<>>, <<>>, res.reqs)
            ELSE Outcome(prior,
                         <<Diag("Client Error",
                                "Unable to read team, got error: " \o res.err)>>,
                         <<>>, res.reqs)
       ELSE Outcome([prior EXCEPT !.display_name = team.DisplayName,
                                  !.description = team.Description,
                                  !.team_type = team.TeamType,
                                  !.organization_id = team.OrganizationId,
                                  !.creator_id = team.CreatorId,
                                  !.state = team.State,
                                  !.members = {}],
                    <<>>, <<>>, res.reqs)

\* a Read that takes the id from the answer as well
TeamResourceReadAdoptsId(c, prior, ans) ==
    LET res == GetTeam(c, ValueString(prior.id), ans)
        team == res.val
    IN IF res.err # NoErr
       THEN IF res.err = "team not found: " \o ValueString(prior.id)
            THEN Outcome(NoState, <<>>, <<>>, res.reqs)
            ELSE Outcome(prior,
                         <<Diag("Client Error",
                                "Unable to read team, got error: " \o res.err)>>,
                         <<>>, res.reqs)
       ELSE Outcome([prior EXCEPT !.id = team.TeamID,
                                  !.display_name = team.DisplayName,
                                  !.description = team.Description,
                                  !.team_type = team.TeamType,
                                  !.organization_id = team.OrganizationId,
                                  !.creator_id = team.CreatorId,
                                  !.state = team.State],
                    <<>>, <<>>, res.reqs)

TeamResourceRead(c, prior, ans) ==
    LET res == GetTeam(c, ValueString(prior.id), ans)
        team == res.val
    IN IF res.err # NoErr
       THEN IF res.err = "team not found: " \o ValueString(prior.id)
            THEN Outcome(NoState, <<>>, <<>>, res.reqs)
            ELSE Outcome(prior,
                         <<Diag("Client Error",
                                "Unable to read team, got error: " \o res.err)>>,
                         <<>>, res.reqs)
       ELSE Outcome([prior EXCEPT !.display_name = team.DisplayName,
                                  !.description = team.Description,
                                  !.team_type = team.TeamType,
                                  !.organization_id = team.OrganizationId,
                                  !.creator_id = team.CreatorId,
                                  !.state = team.State],
                    <<>>, <<>>, res.reqs)

\* an Update that saves the plan whether or not the client call failed
TeamResourceUpdateSavesOnError(c, plan, prior, ans) ==
    LET updateReq == [DisplayName |-> ValueString(plan.display_name),
                      Description |-> ValueString(plan.description)]
        res == UpdateTeam(c, ValueString(plan.id), updateReq, ans)
        team == res.val
    IN IF res.err # NoErr
       THEN Outcome(plan,
                    <<Diag("Client Error",
                           "Unable to update team, got error: " \o res.err)>>,
                    <<>>, res.reqs)
       ELSE Outcome([plan EXCEPT !.display_name = team.DisplayName,
                                 !.description = team.Description,
                                 !.team_type = team.TeamType,
                                 !.organization_id = team.OrganizationId,
                                 !.state = team.State],
                    <<>>, <<>>, res.reqs)

\* an Update that drops the resource when the team is not found, as Read does
TeamResourceUpdateRemovesOnNotFound(c, plan, prior, ans) ==
    LET updateReq == [DisplayName |-> ValueString(plan.display_name),
                      Description |-> ValueString(plan.description)]
        res == UpdateTeam(c, ValueString(plan.id), updateReq, ans)
        team == res.val
    IN IF res.err # NoErr
       THEN IF res.err = "team not found: " \o ValueString(plan.id)
            THEN Outcome(NoState, <<>>, <<>>, res.reqs)
            ELSE Outcome(prior,
                         <<Diag("Client Error",
                                "Unable to update team, got error: " \o res.err)>>,
                         <<>>, res.reqs)
       ELSE Outcome([plan EXCEPT !.display_name = team.DisplayName,
                                 !.description = team.Description,
                                 !.team_type = team.TeamType,
                                 !.organization_id = team.OrganizationId,
                                 !.state = team.State],
                    <<>>, <<>>, res.reqs)

TeamResourceUpdate(c, plan, prior, ans) ==
    LET updateReq == [DisplayName |-> ValueString(plan.display_name),
                      Description |-> ValueString(plan.description)]
        res == UpdateTeam(c, ValueString(plan.id), updateReq, ans)
        team == res.val
    IN IF res.err # NoErr
       THEN Outcome(prior,
                    <<Diag("Client Error",
                           "Unable to update team, got error: " \o res.err)>>,
                    <<>>, res.reqs)
       ELSE Outcome([plan EXCEPT !.display_name = team.DisplayName,
                                 !.description = team.Description,
                                 !.team_type = team.TeamType,
                                 !.organization_id = team.OrganizationId,
                                 !.state = team.State],
                    <<>>, <<>>, res.reqs)

\* the state is dropped by the framework when Delete reports no error
TeamResourceDelete(c, prior, ans) ==
    LET res == DeleteTeam(c, ValueString(prior.id), ans)
    IN IF res.err # NoErr
       THEN Outcome(prior,
                    <<Diag("Client Error",
                           "Unable to delete team, got error: " \o res.err)>>,
                    <<>>, res.reqs)
       ELSE Outcome(NoState, <<>>, <<>>, res.reqs)

\* an import that seeds an empty member set besides the id
TeamResourceImportStateWithMembers(id) ==
    Outcome([id |-> id, display_name |-> Null, description |-> Null,
             team_type |-> Null, site_id |-> Null, organization_id |-> Null,
             creator_id |-> Null, state |-> Null, members |-> {}],
            <<>>, <<>>, <<>>)

\* SetAttribute(id) on an empty state: every other attribute is null
TeamResourceImportState(id) ==
    Outcome([id |-> id, display_name |-> Null, description |-> Null,
             team_type |-> Null, site_id |-> Null, organization_id |-> Null,
             creator_id |-> Null, state |-> Null, members |-> MembersNull],
            <<>>, <<>>, <<>>)

----------------------------------------------------------------------------
(* Bulk operations of the client.                                          *)

\* a decoded list field: empty when the key is missing
JsonList(json, key) == IF key \in DOMAIN json THEN json[key] ELSE <<>>

DecodeBulkOperationResponse(json) ==
    [Errors |-> [i \in 1..Len(JsonList(json, "errors")) |->
                    [TeamID |-> JsonString(json.errors[i], "teamId"),
                     Code |-> JsonString(json.errors[i], "code"),
                     Message |-> JsonString(json.errors[i], "message")]],
     SuccessfulTeamIds |-> JsonList(json, "successfulTeamIds")]

\* the shared body of ArchiveTeams and UnarchiveTeams after the size check
BulkCall(c, orgID, teamIDs, ans, endpoint, doing) ==
    LET path == "/public/teams/v1/org/" \o orgID \o "/teams/" \o endpoint
        request == [teamIds |-> teamIDs]
        req == makeRequest(c, "POST", path, request)
    IN IF ans.status = 0
       THEN Result(<<req>>, "error " \o doing \o " teams: " \o makeRequestError(ans),
                   NoVal)
       ELSE IF ans.status # 200
       THEN Result(<<req>>, "API error " \o doing \o " teams: "
                               \o StatusLine(ans.status) \o " - " \o ans.raw, NoVal)
       ELSE IF ~ans.decodes
       THEN Result(<<req>>, "error decoding " \o endpoint \o " response: "
                               \o DecodeErrorText(ans.raw), NoVal)
       ELSE Result(<<req>>, NoErr, DecodeBulkOperationResponse(ans.json))

BulkSizeError(teamIDs) ==
    "teamIDs must contain between 1 and 100 items, got " \o ToString(Len(teamIDs))

\* an ArchiveTeams that sends whatever batch it is given
ArchiveTeamsUnchecked(c, orgID, teamIDs, ans) ==
    BulkCall(c, orgID, teamIDs, ans, "archive", "archiving")

ArchiveTeams(c, orgID, teamIDs, ans) ==
    IF Len(teamIDs) = 0 \/ Len(teamIDs) > MaxBulkTeams
    THEN Result(<<>>, BulkSizeError(teamIDs), NoVal)
    ELSE BulkCall(c, orgID, teamIDs, ans, "archive", "archiving")

UnarchiveTeams(c, orgID, teamIDs, ans) ==
    IF Len(teamIDs) = 0 \/ Len(teamIDs) > MaxBulkTeams
    THEN Result(<<>>, BulkSizeError(teamIDs), NoVal)
    ELSE BulkCall(c, orgID, teamIDs, ans, "unarchive", "unarchiving")

\* a RestoreTeam that takes 200 for a success as well
RestoreTeamAccepts200(c, orgID, teamID, ans) ==
    LET path == "/public/teams/v1/org/" \o orgID \o "/teams/" \o teamID
                    \o "/restore"
        req == makeRequest(c, "POST", path, NoBody)
    IN IF ans.status = 0
       THEN Result(<<req>>, "error restoring team: " \o makeRequestError(ans), NoVal)
       ELSE IF ans.status = 404
       THEN Result(<<req>>, "team not found for restore: " \o teamID, NoVal)
       ELSE IF ans.status # 204 /\ ans.status # 200
       THEN Result(<<req>>, "API error restoring team: " \o StatusLine(ans.status)
                               \o " - " \o ans.raw, NoVal)
       ELSE Result(<<req>>, NoErr, NoVal)

RestoreTeam(c, orgID, teamID, ans) ==
    LET path == "/public/teams/v1/org/" \o orgID \o "/teams/" \o teamID
                    \o "/restore"
        req == makeRequest(c, "POST", path, NoBody)
    IN IF ans.status = 0
       THEN Result(<<req>>, "error restoring team: " \o makeRequestError(ans), NoVal)
       ELSE IF ans.status = 404
       THEN Result(<<req>>, "team not found for restore: " \o teamID, NoVal)
       ELSE IF ans.status # 204
       THEN Result(<<req>>, "API error restoring team: " \o StatusLine(ans.status)
                               \o " - " \o ans.raw, NoVal)
       ELSE Result(<<req>>, NoErr, NoVal)

----------------------------------------------------------------------------
(* Member operations of the client.                                        *)

MarshalMembers(members) ==
    [members |-> [i \in 1..Len(members) |-> [accountId |-> members[i].AccountID]]]

DecodeCodedErrors(json) ==
    [i \in 1..Len(JsonList(json, "errors")) |->
        [AccountID |-> JsonString(json.errors[i], "accountId"),
         Code |-> JsonString(json.errors[i], "code"),
         Message |-> JsonString(json.errors[i], "message")]]

DecodeMembershipAddResponse(json) ==
    [Errors |-> DecodeCodedErrors(json),
     Members |-> JsonMembers(json, "members").elems]

DecodeMembershipRemoveResponse(json) ==
    [Errors |-> DecodeCodedErrors(json)]

AcceptAny == [Accept |-> "*/*"]

AddTeamMembers(c, orgID, teamID, members, ans) ==
    LET path == "/public/teams/v1/org/" \o orgID \o "/teams/" \o teamID
                    \o "/members/add"
        req == makeRequestWithHeaders(c, "POST", path, MarshalMembers(members),
                                      AcceptAny)
    IN IF ans.status = 0
       THEN Result(<<req>>, "error adding team members: " \o makeRequestError(ans),
                   NoVal)
       ELSE IF ans.status # 200
       THEN Result(<<req>>, "API error adding team members: "
                               \o StatusLine(ans.status) \o " - " \o ans.raw, NoVal)
       ELSE IF ~ans.decodes
       THEN Result(<<req>>, "error decoding add members response: "
                               \o DecodeErrorText(ans.raw), NoVal)
       ELSE Result(<<req>>, NoErr, DecodeMembershipAddResponse(ans.json))

RemoveTeamMembers(c, orgID, teamID, members, ans) ==
    LET path == "/public/teams/v1/org/" \o orgID \o "/teams/" \o teamID
                    \o "/members/remove"
        req == makeRequestWithHeaders(c, "POST", path, MarshalMembers(members),
                                      AcceptAny)
    IN IF ans.status = 0
       THEN Result(<<req>>, "error removing team members: " \o makeRequestError(ans),
                   NoVal)
       ELSE IF ans.status # 200
       THEN Result(<<req>>, "API error removing team members: "
                               \o StatusLine(ans.status) \o " - " \o ans.raw, NoVal)
       ELSE IF ~ans.decodes
       THEN Result(<<req>>, "error decoding remove members response: "
                               \o DecodeErrorText(ans.raw), NoVal)
       ELSE Result(<<req>>, NoErr, DecodeMembershipRemoveResponse(ans.json))

----------------------------------------------------------------------------
(* Paginated reads of the client.                                          *)

\* strings.Join
RECURSIVE Join(_, _)
Join(elems, sep) ==
    IF Len(elems) = 0 THEN ""
    ELSE IF Len(elems) = 1 THEN elems[1]
    ELSE elems[1] \o sep \o Join(Tail(elems), sep)

\* the Team entities of a decoded page
DecodeTeam(json) ==
    [TeamID |-> JsonString(json, "teamId"),
     DisplayName |-> JsonString(json, "displayName"),
     Description |-> JsonString(json, "description"),
     TeamType |-> JsonString(json, "teamType"),
     OrganizationId |-> JsonString(json, "organizationId"),
     CreatorId |-> JsonString(json, "creatorId"),
     State |-> JsonString(json, "state")]

DecodeTeamPaginationResult(json) ==
    [Cursor |-> JsonString(json, "cursor"),
     Entities |-> [i \in 1..Len(JsonList(json, "entities")) |->
                      DecodeTeam(json.entities[i])]]

\* a GetTeams that sends the requested size as it is
GetTeamsUnclamped(c, orgID, siteId, size, cursor, ans) ==
    LET withSite == IF siteId # "" THEN <<"siteId=" \o siteId>> ELSE <<>>
        withSize == IF size > 0
                    THEN Append(withSite, "size=" \o ToString(size))
                    ELSE withSite
        queryParams == IF cursor # "" THEN Append(withSize, "cursor=" \o cursor)
                       ELSE withSize
        path == "/public/teams/v1/org/" \o orgID \o "/teams"
                    \o (IF Len(queryParams) > 0
                        THEN "?" \o Join(queryParams, "&") ELSE "")
        req == makeRequest(c, "GET", path, NoBody)
    IN IF ans.status = 0
       THEN Result(<<req>>, "error getting teams list: " \o makeRequestError(ans),
                   NoVal)
       ELSE IF ans.status # 200
       THEN Result(<<req>>, "API error getting teams list: "
                               \o StatusLine(ans.status) \o " - " \o ans.raw, NoVal)
       ELSE IF ~ans.decodes
       THEN Result(<<req>>, "error decoding teams list response: "
                               \o DecodeErrorText(ans.raw), NoVal)
       ELSE Result(<<req>>, NoErr, DecodeTeamPaginationResult(ans.json))

GetTeams(c, orgID, siteId, size, cursor, ans) ==
    LET withSite == IF siteId # "" THEN <<"siteId=" \o siteId>> ELSE <<>>
        withSize == IF size > 0
                    THEN Append(withSite,
                                "size=" \o ToString(IF size > 300 THEN 300 ELSE size))
                    ELSE withSite
        queryParams == IF cursor # "" THEN Append(withSize, "cursor=" \o cursor)
                       ELSE withSize
        path == "/public/teams/v1/org/" \o orgID \o "/teams"
                    \o (IF Len(queryParams) > 0
                        THEN "?" \o Join(queryParams, "&") ELSE "")
        req == makeRequest(c, "GET", path, NoBody)
    IN IF ans.status = 0
       THEN Result(<<req>>, "error getting teams list: " \o makeRequestError(ans),
                   NoVal)
       ELSE IF ans.status # 200
       THEN Result(<<req>>, "API error getting teams list: "
                               \o StatusLine(ans.status) \o " - " \o ans.raw, NoVal)
       ELSE IF ~ans.decodes
       THEN Result(<<req>>, "error decoding teams list response: "
                               \o DecodeErrorText(ans.raw), NoVal)
       ELSE Result(<<req>>, NoErr, DecodeTeamPaginationResult(ans.json))

\* json.Marshal of PublicApiMembershipFetchPayload: both fields are omitempty
\* (the zero values "" and 0 are left out)
MarshalMembershipFetchPayload(payload) ==
    [k \in { key \in {"after", "first"} :
                \/ key = "after" /\ payload.After # ""
                \/ key = "first" /\ payload.First # 0 } |->
        IF k = "after" THEN payload.After ELSE payload.First]

DecodeMembershipFetchResponse(json) ==
    [PageInfo |-> [EndCursor |-> IF "pageInfo" \in DOMAIN json
                                 THEN JsonString(json.pageInfo, "endCursor") ELSE "",
                   HasNextPage |-> IF "pageInfo" \in DOMAIN json
                                      /\ "hasNextPage" \in DOMAIN json.pageInfo
                                   THEN json.pageInfo.hasNextPage ELSE FALSE],
     Results |-> JsonMembers(json, "results").elems]

\* a FetchTeamMembers that sends every positive page size
FetchTeamMembersUnchecked(c, orgID, teamID, siteId, after, first, ans) ==
    LET basePath == "/public/teams/v1/org/" \o orgID \o "/teams/" \o teamID
                        \o "/members"
        path == IF siteId # "" THEN basePath \o "?siteId=" \o siteId ELSE basePath
        payload == [After |-> after,
                    First |-> IF first > 0 THEN first ELSE 0]
        req == makeRequestWithHeaders(c, "POST", path,
                                      MarshalMembershipFetchPayload(payload),
                                      AcceptAny)
    IN IF ans.status = 0
       THEN Result(<<req>>, "error fetching team members: " \o makeRequestError(ans),
                   NoVal)
       ELSE IF ans.status # 200
       THEN Result(<<req>>, "API error fetching team members: "
                               \o StatusLine(ans.status) \o " - " \o ans.raw, NoVal)
       ELSE IF ~ans.decodes
       THEN Result(<<req>>, "error decoding team members response: "
                               \o DecodeErrorText(ans.raw), NoVal)
       ELSE Result(<<req>>, NoErr, DecodeMembershipFetchResponse(ans.json))

FetchTeamMembers(c, orgID, teamID, siteId, after, first, ans) ==
    LET basePath == "/public/teams/v1/org/" \o orgID \o "/teams/" \o teamID
                        \o "/members"
        path == IF siteId # "" THEN basePath \o "?siteId=" \o siteId ELSE basePath
        payload == [After |-> after,
                    First |-> IF first > 0 /\ first <= 50 THEN first ELSE 0]
        req == makeRequestWithHeaders(c, "POST", path,
                                      MarshalMembershipFetchPayload(payload),
                                      AcceptAny)
    IN IF ans.status = 0
       THEN Result(<<req>>, "error fetching team members: " \o makeRequestError(ans),
                   NoVal)
       ELSE IF ans.status # 200
       THEN Result(<<req>>, "API error fetching team members: "
                               \o StatusLine(ans.status) \o " - " \o ans.raw, NoVal)
       ELSE IF ~ans.decodes
       THEN Result(<<req>>, "error decoding team members response: "
                               \o DecodeErrorText(ans.raw), NoVal)
       ELSE Result(<<req>>, NoErr, DecodeMembershipFetchResponse(ans.json))

----------------------------------------------------------------------------
(* The server: the answers it may give.                                    *)

FailureText == "denied"

TeamJson(teamId, displayName, description, teamType, st) ==
    [teamId |-> teamId, displayName |-> displayName, description |-> description,
     teamType |-> teamType, organizationId |-> "org-1", creatorId |-> "u1",
     state |-> st]

TeamBodies ==
    { TeamJson(t, RemoteDisplayName, d, RemoteTeamType, RemoteState) :
        t \in TeamIds, d \in RemoteDescriptions }

\* answers that carry no entity: a transport failure or a status with a text body
PlainAnswers(statuses) ==
    {TransportFailure} \cup { TextAnswer(s, FailureText) : s \in statuses }

\* answers to POST /teams/: the server creates the team under an unused id
\* and echoes the payload, with or without the member list
CreateAnswers(team) ==
    PlainAnswers(Statuses)
    \cup { JsonAnswer(s, TeamJson(t, team.DisplayName, team.Description,
                                  team.TeamType, "ACTIVE") @@ m) :
             s \in {200, 201}, t \in TeamIds \ remote,
             m \in {NoJson, [members |-> <<[accountId |-> "A"]>>]} }

\* answers to GET and PATCH of a team
EntityAnswers(teamID) ==
    IF teamID \in remote
    THEN PlainAnswers(Statuses \ {404}) \cup { JsonAnswer(200, b) : b \in TeamBodies }
    ELSE PlainAnswers({403, 404, 410})

\* answers to DELETE of a team
DeleteAnswers(teamID) ==
    IF teamID \in remote
    THEN PlainAnswers(Statuses \ {404})
    ELSE PlainAnswers({403, 404, 410})

\* answers to the restore of a team: a team that exists is not reported
\* missing
RestoreAnswers(teamID) ==
    IF teamID \in remote THEN PlainAnswers(Statuses \ {404})
    ELSE PlainAnswers(Statuses)

\* answers to a direct CreateTeam: any status, or the created team echoed
DirectCreateAnswers(team) ==
    PlainAnswers(AllStatuses)
    \cup { JsonAnswer(s, TeamJson(t, team.DisplayName, team.Description,
                                  team.TeamType, "ACTIVE")) :
             s \in {200, 201}, t \in TeamIds \ remote }

\* answers to GetTeams: any status, or a page of teams with or without a
\* cursor to the next page
TeamsAnswers ==
    PlainAnswers(AllStatuses)
    \cup { JsonAnswer(200, more @@ [entities |-> <<b>>]) :
             more \in {NoJson, [cursor |-> "c2"]}, b \in TeamBodies }

\* answers to FetchTeamMembers: any status, or a page of members
FetchAnswers ==
    PlainAnswers(AllStatuses)
    \cup { JsonAnswer(200, [pageInfo |-> [endCursor |-> "m2", hasNextPage |-> h],
                            results |-> <<[accountId |-> "A"]>>]) :
             h \in BOOLEAN }

Range(seq) == { seq[i] : i \in 1..Len(seq) }

\* the sets of items of a batch the server may fail
FailSets(items) ==
    IF Len(items) <= MaxSmallBatch THEN SUBSET Range(items)
    ELSE {{}, {items[1]}}

BulkJson(teamIDs, failed) ==
    LET bad == SelectSeq(teamIDs, LAMBDA t : t \in failed)
    IN [successfulTeamIds |-> SelectSeq(teamIDs, LAMBDA t : t \notin failed),
        errors |-> [i \in 1..Len(bad) |->
                       [teamId |-> bad[i], code |-> "TEAM_NOT_FOUND",
                        message |-> "no such team"]]]

BulkAnswers(teamIDs) ==
    PlainAnswers(Statuses)
    \cup { JsonAnswer(200, BulkJson(teamIDs, f)) : f \in FailSets(teamIDs) }

MembersJson(members, failed, withMembers) ==
    LET bad == SelectSeq(members, LAMBDA m : m \in failed)
        good == SelectSeq(members, LAMBDA m : m \notin failed)
        errors == [errors |-> [i \in 1..Len(bad) |->
                      [accountId |-> bad[i].AccountID, code |-> "USER_NOT_FOUND",
                       message |-> "no such user"]]]
    IN IF withMembers
       THEN errors @@ [members |-> [i \in 1..Len(good) |->
                                       [accountId |-> good[i].AccountID]]]
       ELSE errors

MemberAnswers(members, withMembers) ==
    PlainAnswers(Statuses)
    \cup { JsonAnswer(200, MembersJson(members, f, withMembers)) :
             f \in FailSets(members) }

----------------------------------------------------------------------------
(* Inputs of the direct client calls.                                      *)

BulkTeamName(i) ==
    IF i % 3 = 1 THEN "T1" ELSE IF i % 3 = 2 THEN "T2" ELSE "T3"

TeamBatch(n) == [i \in 1..n |-> BulkTeamName(i)]

TeamBatches ==
    { TeamBatch(n) : n \in (0..MaxSmallBatch)
                            \cup {MaxBulkTeams, MaxBulkTeams + OverLimit} }

AccountName(i) ==
    IF i = 1 THEN "A" ELSE IF i = 2 THEN "B" ELSE IF i = 3 THEN "C"
    ELSE "m" \o ToString(i)

MemberBatch(n) == [i \in 1..n |-> [AccountID |-> AccountName(i)]]

MemberBatches ==
    { MemberBatch(n) : n \in (0..MaxSmallBatch)
                              \cup {DocMaxMembers, DocMaxMembers + OverLimit} }

\* the page sizes a caller may ask for: none, the smallest, the largest
\* that is sent and sizes above it
TeamsPageSizes == {-1, 0, 1, 300} \cup { 300 + k : k \in 1..OverLimit }

MembersPageSizes == {-1, 0, 1, 50} \cup { 50 + k : k \in 1..OverLimit }

----------------------------------------------------------------------------
(* The provider: Configure builds the client from the configuration and    *)
(* the environment.  data is the AtlassianProviderModel (each attribute    *)
(* null, unknown or a string) and env gives the value of os.Getenv for     *)
(* each setting ("" when the variable is not set).                         *)

NoClient == [noclient |-> TRUE]

ProviderDiag(attribute, summary) == [attribute |-> attribute, summary |-> summary]

\* a resolution in which the environment overrides the configuration
ResolveEnvFirst(configured, fromEnv) ==
    IF fromEnv # "" THEN fromEnv ELSE ValueString(configured)

\* the environment value, overridden by the configuration value when the
\* attribute is not null
Resolve(configured, fromEnv) ==
    IF configured # Null THEN ValueString(configured) ELSE fromEnv

\* the diagnostics for attributes whose configured value is unknown
UnknownErrors(data) ==
    (IF data.api_token = Unknown
     THEN <<ProviderDiag("api_token", "Unknown Atlassian API Token")>> ELSE <<>>)
    \o (IF data.email = Unknown
        THEN <<ProviderDiag("email", "Unknown Atlassian Email")>> ELSE <<>>)
    \o (IF data.organization = Unknown
        THEN <<ProviderDiag("organization", "Unknown Atlassian Organization")>>
        ELSE <<>>)
    \o (IF data.site_id = Unknown
        THEN <<ProviderDiag("site_id", "Unknown Atlassian Site ID")>> ELSE <<>>)
    \o (IF data.org_id = Unknown
        THEN <<ProviderDiag("org_id", "Unknown Atlassian Org ID")>> ELSE <<>>)

\* the result of Configure: its diagnostics and the client it hands to the
\* resources (NoClient when it returns without one)
ProviderConfigure(data, env) ==
    LET apiToken == Resolve(data.api_token, env.api_token)
        email == Resolve(data.email, env.email)
        organization == Resolve(data.organization, env.organization)
        siteId == Resolve(data.site_id, env.site_id)
        orgId == Resolve(data.org_id, env.org_id)
        baseUrl == Resolve(data.base_url, env.base_url)
        errors ==
            (IF apiToken = ""
             THEN <<ProviderDiag("api_token", "Missing Atlassian API Token")>>
             ELSE <<>>)
            \o (IF orgId = ""
                THEN <<ProviderDiag("org_id", "Missing Atlassian Organization ID")>>
                ELSE <<>>)
        warnings ==
            IF organization = "" /\ orgId = ""
            THEN <<ProviderDiag("org_id", "Missing Organization Identifier")>>
            ELSE <<>>
    IN IF UnknownErrors(data) # <<>>
       THEN [errors |-> UnknownErrors(data), warnings |-> <<>>, client |-> NoClient]
       ELSE IF errors # <<>>
       THEN [errors |-> errors, warnings |-> warnings, client |-> NoClient]
       ELSE [errors |-> <<>>, warnings |-> warnings,
             client |-> NewAtlassianClient(apiToken, email, organization, siteId,
                                           orgId,
                                           IF baseUrl = "" THEN DefaultBaseURL
                                           ELSE baseUrl)]

\* provider configurations and environments
ProviderConfigs ==
    [api_token : {Null, Unknown, "tok"}, email : {Null, "admin@company.com"},
     organization : {Null, "my-company"}, site_id : {Null, "site-9"},
     org_id : {Null, Unknown, "", "org-1"},
     base_url : {Null, Unknown, "", "http://localhost:8080"}]

Environments ==
    [api_token : {"", "env-tok"}, email : {"", "env@company.com"},
     organization : {"", "env-company"}, site_id : {"", "env-site"},
     org_id : {"", "env-org"}, base_url : {"", "http://env:8080"}]

----------------------------------------------------------------------------
(* The steps.                                                              *)

NoPlan == [noplan |-> TRUE]
NoAnswer == TextAnswer(-1, "")

\* what the last step was: ok is "no error diagnostic and no returned
\* error"; plan is the plan a Create or Update saved into the state (NoPlan
\* when the step failed: nothing of the plan is kept then); input is the team type of
\* a validation or the id of an import; size is the batch size of a direct
\* call; members is the member set of the prior state of an Update; err and
\* val are what a direct client call returned
Last(op, ok, ans, plan, input, size, members, err, val) ==
    [op |-> op, ok |-> ok, ans |-> ans, plan |-> plan, input |-> input,
     size |-> size, members |-> members, err |-> err, val |-> val]

Handled(op, out, ans, plan, members) ==
    /\ state' = out.state
    /\ diags' = [errors |-> out.errors, warnings |-> out.warnings]
    /\ sent' = out.reqs
    /\ last' = Last(op, out.errors = <<>>, ans,
                    IF out.errors = <<>> THEN plan ELSE NoPlan, "", 0,
                    members, NoErr, NoVal)

Called(op, res, ans, size) ==
    /\ diags' = [errors |-> <<>>, warnings |-> <<>>]
    /\ sent' = res.reqs
    /\ last' = Last(op, res.err = NoErr, ans, NoPlan, "", size, MembersNull,
                    res.err, res.val)
    /\ UNCHANGED <<client, remote, state>>

\* the server's side of an answered request
ServerCreates(ans) ==
    IF ans.status \in {200, 201} /\ ans.decodes
    THEN remote \cup {ans.json.teamId} ELSE remote

ServerDeletes(teamID, ans) ==
    IF ans.status \in {200, 204} THEN remote \ {teamID} ELSE remote

ServerRestores(teamID, ans) ==
    IF ans.status = 204 THEN remote \cup {teamID} ELSE remote

\* the framework validates a configuration among configs against the schema
ValidateConfigOf(configs) ==
    \E cfg \in configs :
        /\ diags' = [errors |-> IF TeamTypeOneOf(cfg.team_type) THEN <<>>
                                ELSE <<Diag("Invalid Attribute Value Match",
                                            "team_type: " \o cfg.team_type)>>,
                     warnings |-> <<>>]
        /\ sent' = <<>>
        /\ last' = Last("ValidateConfig", TeamTypeOneOf(cfg.team_type), NoAnswer,
                        NoPlan, cfg.team_type, 0, MembersNull, NoErr, NoVal)
        /\ UNCHANGED <<client, remote, state>>

ValidateConfig == ValidateConfigOf(Configs)

\* Create is called with the plan of a configuration that passed validation
CreateOf(configs) ==
    /\ state = NoState
    /\ \E cfg \in configs :
        /\ TeamTypeOneOf(cfg.team_type)
        /\ LET plan == PlanOf(cfg, Unknown)
           IN \E ans \in CreateAnswers([DisplayName |-> cfg.display_name,
                                        Description |-> cfg.description,
                                        TeamType |-> cfg.team_type]) :
                /\ Handled("Create", TeamResourceCreate(client, plan, ans), ans,
                           plan, MembersNull)
                /\ remote' = ServerCreates(ans)
    /\ UNCHANGED client

Create == CreateOf(Configs)

Read ==
    /\ state # NoState
    /\ \E ans \in EntityAnswers(ValueString(state.id)) :
        Handled("Read", TeamResourceRead(client, state, ans), ans, NoPlan,
                MembersNull)
    /\ UNCHANGED <<client, remote>>

UpdateOf(configs) ==
    /\ state # NoState
    /\ \E cfg \in configs :
        /\ TeamTypeOneOf(cfg.team_type)
        /\ LET plan == PlanOf(cfg, state.id)
           IN \E ans \in EntityAnswers(ValueString(state.id)) :
                Handled("Update", TeamResourceUpdate(client, plan, state, ans), ans,
                        plan, state.members)
    /\ UNCHANGED <<client, remote>>

Update == UpdateOf(Configs)

\* the same steps with display names and descriptions of any length
ValidateAnyLength == ValidateConfigOf(LengthConfigs)
CreateAnyLength == CreateOf(LengthConfigs)
UpdateAnyLength == UpdateOf(LengthConfigs)

Delete ==
    /\ state # NoState
    /\ \E ans \in DeleteAnswers(ValueString(state.id)) :
        /\ Handled("Delete", TeamResourceDelete(client, state, ans), ans, NoPlan,
                   MembersNull)
        /\ remote' = ServerDeletes(ValueString(state.id), ans)
    /\ UNCHANGED client

ImportState ==
    /\ state = NoState
    /\ \E id \in TeamIds :
        /\ state' = TeamResourceImportState(id).state
        /\ diags' = [errors |-> <<>>, warnings |-> <<>>]
        /\ sent' = <<>>
        /\ last' = Last("ImportState", TRUE, NoAnswer, NoPlan, id, 0, MembersNull,
                        NoErr, NoVal)
    /\ UNCHANGED <<client, remote>>

\* the team is deleted outside Terraform
DeletedOutside ==
    /\ \E t \in remote : remote' = remote \ {t}
    /\ UNCHANGED <<client, state, diags, sent, last>>

\* a team comes into existence outside Terraform (the case import is for)
CreatedOutside ==
    /\ \E t \in TeamIds \ remote : remote' = remote \cup {t}
    /\ UNCHANGED <<client, state, diags, sent, last>>

CallArchiveTeams ==
    \E teamIDs \in TeamBatches : \E ans \in BulkAnswers(teamIDs) :
        Called("ArchiveTeams", ArchiveTeams(client, client.OrgId, teamIDs, ans), ans,
               Len(teamIDs))

CallUnarchiveTeams ==
    \E teamIDs \in TeamBatches : \E ans \in BulkAnswers(teamIDs) :
        Called("UnarchiveTeams", UnarchiveTeams(client, client.OrgId, teamIDs, ans),
               ans, Len(teamIDs))

CallAddTeamMembers ==
    \E teamID \in TeamIds, members \in MemberBatches :
        \E ans \in MemberAnswers(members, TRUE) :
            Called("AddTeamMembers",
                   AddTeamMembers(client, client.OrgId, teamID, members, ans), ans,
                   Len(members))

CallRemoveTeamMembers ==
    \E teamID \in TeamIds, members \in MemberBatches :
        \E ans \in MemberAnswers(members, FALSE) :
            Called("RemoveTeamMembers",
                   RemoveTeamMembers(client, client.OrgId, teamID, members, ans), ans,
                   Len(members))

CallGetTeam ==
    \E teamID \in TeamIds :
        \E ans \in PlainAnswers(AllStatuses)
                      \cup { JsonAnswer(200, b) : b \in TeamBodies } :
            LET res == GetTeam(client, teamID, ans)
            IN /\ diags' = [errors |-> <<>>, warnings |-> <<>>]
               /\ sent' = res.reqs
               /\ last' = Last("GetTeam", res.err = NoErr, ans, NoPlan, teamID, 0,
                               MembersNull, res.err, res.val)
               /\ UNCHANGED <<client, remote, state>>

CallUpdateTeam ==
    \E teamID \in TeamIds, displayName \in DisplayNames :
        \E ans \in PlainAnswers(AllStatuses)
                      \cup { JsonAnswer(200, b) : b \in TeamBodies } :
            LET res == UpdateTeam(client, teamID,
                                  [DisplayName |-> displayName, Description |-> ""],
                                  ans)
            IN /\ diags' = [errors |-> <<>>, warnings |-> <<>>]
               /\ sent' = res.reqs
               /\ last' = Last("UpdateTeam", res.err = NoErr, ans, NoPlan, teamID, 0,
                               MembersNull, res.err, res.val)
               /\ UNCHANGED <<client, remote, state>>

CallRestoreTeam ==
    \E teamID \in TeamIds : \E ans \in RestoreAnswers(teamID) :
        LET res == RestoreTeam(client, client.OrgId, teamID, ans)
        IN /\ diags' = [errors |-> <<>>, warnings |-> <<>>]
           /\ sent' = res.reqs
           /\ last' = Last("RestoreTeam", res.err = NoErr, ans, NoPlan, teamID, 0,
                           MembersNull, res.err, res.val)
           /\ remote' = ServerRestores(teamID, ans)
           /\ UNCHANGED <<client, state>>

\* a direct call of a client operation returns: input is what the caller
\* passed
CalledWith(op, res, ans, input, size) ==
    /\ diags' = [errors |-> <<>>, warnings |-> <<>>]
    /\ sent' = res.reqs
    /\ last' = Last(op, res.err = NoErr, ans, NoPlan, input, size, MembersNull,
                    res.err, res.val)
    /\ UNCHANGED <<client, state>>

CallCreateTeam ==
    \E displayName \in DisplayNames, siteId \in {"", "site-1"} :
        LET team == [DisplayName |-> displayName, Description |-> "about",
                     TeamType |-> "OPEN", SiteId |-> siteId]
        IN \E ans \in DirectCreateAnswers(team) :
            /\ CalledWith("CreateTeam", CreateTeam(client, team, ans), ans, team, 0)
            /\ remote' = ServerCreates(ans)

CallDeleteTeam ==
    \E teamID \in TeamIds : \E ans \in PlainAnswers(AllStatuses) :
        /\ CalledWith("DeleteTeam", DeleteTeam(client, teamID, ans), ans, teamID, 0)
        /\ remote' = ServerDeletes(teamID, ans)

\* GetTeams called with a page request among the given ones
CallGetTeamsOf(siteIds, sizes, cursors, answers) ==
    \E siteId \in siteIds, size \in sizes, cursor \in cursors :
        \E ans \in answers :
            /\ CalledWith("GetTeams",
                          GetTeams(client, client.OrgId, siteId, size, cursor, ans),
                          ans, [siteId |-> siteId, cursor |-> cursor], size)
            /\ UNCHANGED remote

\* FetchTeamMembers called with a page request among the given ones
CallFetchTeamMembersOf(siteIds, cursors, sizes, answers) ==
    \E teamID \in TeamIds, siteId \in siteIds, after \in cursors, first \in sizes :
        \E ans \in answers :
            /\ CalledWith("FetchTeamMembers",
                          FetchTeamMembers(client, client.OrgId, teamID, siteId,
                                           after, first, ans),
                          ans, [teamID |-> teamID, siteId |-> siteId,
                                after |-> after], first)
            /\ UNCHANGED remote

\* the first page, answered with any status
CallGetTeams == CallGetTeamsOf({""}, {1}, {""}, TeamsAnswers)
CallFetchTeamMembers == CallFetchTeamMembersOf({""}, {""}, {1}, FetchAnswers)

\* any page request, answered with a page or not at all
PageTeams ==
    CallGetTeamsOf({"", "site-1"}, TeamsPageSizes, {"", "c1"},
                   { a \in TeamsAnswers : a.status \in {0, 200} })
PageMembers ==
    CallFetchTeamMembersOf({"", "site-1"}, {"", "c1"}, MembersPageSizes,
                           { a \in FetchAnswers : a.status \in {0, 200} })

\* two resource blocks of one configuration.  The run "both" applies the
\* two blocks together, each handler in a goroutine of its own; the run
\* named after an instance applies that block alone, with a provider of its
\* own.  In the runs of instances, client maps each run to the
\* AtlassianClient its provider built (the name of the run is the address
\* of that object) and state maps each run and each instance of it to the
\* TeamResource (its client pointer, "nil" before Configure), to the record
\* Terraform tracks for it and to the call its handler is in: a handler
\* builds and sends its request, waits in HTTPClient.Do while the server
\* answers, and then returns; handlers of the other instance run meanwhile.
Instances == {"a", "b"}

\* the configurations of the two blocks: a plain OPEN team with or without
\* a site
InstanceConfigs ==
    { cfg \in Configs : /\ cfg.display_name = "Dev Team" /\ cfg.description = "about"
                        /\ cfg.team_type = "OPEN" /\ cfg.members = MembersNull }

\* Configure of a TeamResource whose client pointer is handle.  providerData
\* is nil before the provider is configured; else it is what the provider
\* stored as ResourceData, the pointer to its client, which the resource
\* keeps as it is
TeamResourceConfigure(handle, providerData) ==
    IF providerData.type = "nil"
    THEN [client |-> handle, errors |-> <<>>]
    ELSE IF providerData.type # "*AtlassianClient"
    THEN [client |-> handle,
          errors |-> <<Diag("Unexpected Resource Configure Type",
                            "Expected *AtlassianClient, got: " \o providerData.type
                            \o ". Please report this issue to the provider developers.")>>]
    ELSE [client |-> providerData.addr, errors |-> <<>>]

\* the framework configures instance i, in the run of both and in its run
\* alone, before or after the provider of the run is configured
InstanceConfigure ==
    \E i \in Instances, configured \in BOOLEAN :
        LET dataOf(run) == IF configured
                           THEN [type |-> "*AtlassianClient", addr |-> run]
                           ELSE [type |-> "nil"]
            out == TeamResourceConfigure(state["both"][i].client, dataOf("both"))
            alone == TeamResourceConfigure(state[i][i].client, dataOf(i))
        IN /\ state' = [state EXCEPT !["both"][i].client = out.client,
                                     ![i][i].client = alone.client]
           /\ diags' = [errors |-> out.errors, warnings |-> <<>>]
           /\ sent' = <<>>
           /\ last' = Last("Configure", out.errors = <<>>, NoAnswer, NoPlan,
                           [instance |-> i, data |-> dataOf("both")], 0,
                           MembersNull, NoErr, <<>>)
           /\ UNCHANGED <<client, remote>>

\* the handler op of instance i, called with data, reaches HTTPClient.Do: it
\* has sent the requests reqs in the run of both and alone in the run of i
\* alone, and waits for the answer; val is what the run of i alone sent
InstanceCalls(i, op, data, reqs, alone) ==
    /\ state' = [state EXCEPT
                    !["both"][i].call = [phase |-> "sent", op |-> op, data |-> data],
                    ![i][i].call = [phase |-> "sent", op |-> op, data |-> data]]
    /\ diags' = [errors |-> <<>>, warnings |-> <<>>]
    /\ sent' = reqs
    /\ last' = Last(op, TRUE, NoAnswer, NoPlan, [instance |-> i, data |-> data], 0,
                    MembersNull, NoErr, alone)
    /\ UNCHANGED <<client, remote>>

\* the handlers up to HTTPClient.Do: the request does not depend on the
\* answer, so it is read from the handler run on no answer
InstanceCreate ==
    \E i \in Instances, cfg \in InstanceConfigs :
        /\ state["both"][i].client # "nil"
        /\ state["both"][i].call.phase = "idle"
        /\ state["both"][i].record = NoState
        /\ LET plan == PlanOf(cfg, Unknown)
           IN InstanceCalls(i, "Create", plan,
                  TeamResourceCreate(client[state["both"][i].client], plan,
                                     TransportFailure).reqs,
                  TeamResourceCreate(client[state[i][i].client], plan,
                                     TransportFailure).reqs)

InstanceRead ==
    \E i \in Instances :
        /\ state["both"][i].client # "nil"
        /\ state["both"][i].call.phase = "idle"
        /\ state["both"][i].record # NoState
        /\ InstanceCalls(i, "Read", state["both"][i].record,
               TeamResourceRead(client[state["both"][i].client],
                                state["both"][i].record, TransportFailure).reqs,
               TeamResourceRead(client[state[i][i].client], state[i][i].record,
                                TransportFailure).reqs)

InstanceUpdate ==
    \E i \in Instances, cfg \in InstanceConfigs :
        /\ state["both"][i].client # "nil"
        /\ state["both"][i].call.phase = "idle"
        /\ state["both"][i].record # NoState
        /\ LET plan == PlanOf(cfg, state["both"][i].record.id)
           IN InstanceCalls(i, "Update", plan,
                  TeamResourceUpdate(client[state["both"][i].client], plan,
                                     state["both"][i].record, TransportFailure).reqs,
                  TeamResourceUpdate(client[state[i][i].client], plan,
                                     state[i][i].record, TransportFailure).reqs)

InstanceDelete ==
    \E i \in Instances :
        /\ state["both"][i].client # "nil"
        /\ state["both"][i].call.phase = "idle"
        /\ state["both"][i].record # NoState
        /\ InstanceCalls(i, "Delete", state["both"][i].record,
               TeamResourceDelete(client[state["both"][i].client],
                                  state["both"][i].record, TransportFailure).reqs,
               TeamResourceDelete(client[state[i][i].client], state[i][i].record,
                                  TransportFailure).reqs)

\* the server handles the request instance i waits on, while the handler
\* still waits: no answer, 404 or a success (201 with the created team and
\* no member list, 200 with the entity where the handler reads one); the
\* run of i alone is given the same answer
InstanceAnswered ==
    \E i \in Instances :
        LET call == state["both"][i].call
            teamID == ValueString(state["both"][i].record.id)
            answers ==
                CASE call.op = "Create" ->
                         { a \in CreateAnswers([DisplayName |-> call.data.display_name,
                                                Description |-> call.data.description,
                                                TeamType |-> call.data.team_type]) :
                             a.status \in {0, 404}
                             \/ (a.status = 201 /\ a.decodes
                                 /\ "members" \notin DOMAIN a.json) }
                  [] call.op \in {"Read", "Update"} ->
                         { a \in EntityAnswers(teamID) :
                             a.status \in {0, 404} \/ a.decodes }
                  [] call.op = "Delete" ->
                         { a \in DeleteAnswers(teamID) :
                             a.status \in {0, 200, 404} }
        IN /\ call.phase = "sent"
           /\ \E ans \in answers :
                /\ state' = [state EXCEPT
                                !["both"][i].call = [phase |-> "answered", op |-> call.op,
                                                     data |-> call.data, ans |-> ans],
                                ![i][i].call = [phase |-> "answered", op |-> call.op,
                                                data |-> call.data, ans |-> ans]]
                /\ remote' = CASE call.op = "Create" -> ServerCreates(ans)
                               [] call.op = "Delete" -> ServerDeletes(teamID, ans)
                               [] OTHER -> remote
           /\ UNCHANGED <<client, diags, sent, last>>

\* the object r.client points to after a handler ran on it: no handler
\* and no client operation assigns a field of the client
ClientAfterHandlerStoresSite(c, data) ==
    [c EXCEPT !.SiteId = ValueString(data.site_id)]

ClientAfterHandler(c, data) == c

\* HTTPClient.Do returns in the handler of instance i, which reads the
\* answer, sets its response and returns, in the run of both and in the run
\* of i alone
InstanceHandled ==
    \E i \in Instances :
        LET call == state["both"][i].call
            outcome(c, prior) ==
                CASE call.op = "Create" -> TeamResourceCreate(c, call.data, call.ans)
                  [] call.op = "Read" -> TeamResourceRead(c, prior, call.ans)
                  [] call.op = "Update" ->
                         TeamResourceUpdate(c, call.data, prior, call.ans)
                  [] call.op = "Delete" -> TeamResourceDelete(c, prior, call.ans)
            out == outcome(client[state["both"][i].client], state["both"][i].record)
            alone == outcome(client[state[i][i].client], state[i][i].record)
        IN /\ call.phase = "answered"
           /\ state' = [state EXCEPT
                           !["both"][i].record = out.state,
                           !["both"][i].call = [phase |-> "idle"],
                           ![i][i].record = alone.state,
                           ![i][i].call = [phase |-> "idle"]]
           /\ diags' = [errors |-> out.errors, warnings |-> out.warnings]
           /\ sent' = <<>>
           /\ last' = Last("Return", out.errors = <<>>, call.ans, NoPlan,
                           [instance |-> i, op |-> call.op], 0,
                           MembersNull, NoErr, <<>>)
           /\ client' = [client EXCEPT
                            ![state["both"][i].client] =
                                ClientAfterHandler(@, call.data),
                            ![state[i][i].client] = ClientAfterHandler(@, call.data)]
           /\ UNCHANGED remote

\* a server that stores the teams: remote maps the id of each team to its
\* entity; a PATCH changes exactly the keys its body carries
ServerApplies(entity, body) ==
    [k \in DOMAIN entity |-> IF k \in DOMAIN body THEN body[k] ELSE entity[k]]

\* the configurations of a plain OPEN team with or without a description
StoredConfigs ==
    { cfg \in Configs : /\ cfg.team_type = "OPEN" /\ cfg.site_id = Null
                        /\ cfg.members = MembersNull }

\* Create against the storing server: the team is stored under an unused id
\* and echoed, unless the transport fails
StoredCreate ==
    /\ state = NoState
    /\ \E cfg \in StoredConfigs, t \in TeamIds \ DOMAIN remote :
        LET plan == PlanOf(cfg, Unknown)
            request == TeamResourceCreate(client, plan, TransportFailure).reqs[1]
            entity == TeamJson(t, request.body.displayName,
                               request.body.description, request.body.teamType,
                               "ACTIVE")
        IN \E ans \in {JsonAnswer(201, entity), TransportFailure} :
            /\ Handled("Create", TeamResourceCreate(client, plan, ans), ans, plan,
                       MembersNull)
            /\ remote' = IF ans.status = 201
                         THEN [k \in DOMAIN remote \cup {t} |->
                                  IF k = t THEN entity ELSE remote[k]]
                         ELSE remote
    /\ UNCHANGED client

\* Read against the storing server: the stored entity is returned
StoredRead ==
    /\ state # NoState
    /\ ValueString(state.id) \in DOMAIN remote
    /\ \E ans \in {JsonAnswer(200, remote[ValueString(state.id)]), TransportFailure} :
        Handled("Read", TeamResourceRead(client, state, ans), ans, NoPlan,
                MembersNull)
    /\ UNCHANGED <<client, remote>>

\* Update against the storing server: the keys of the PATCH body are applied
\* to the stored entity and the result is echoed
StoredUpdate ==
    /\ state # NoState
    /\ ValueString(state.id) \in DOMAIN remote
    /\ \E cfg \in StoredConfigs :
        LET plan == PlanOf(cfg, state.id)
            request == TeamResourceUpdate(client, plan, state,
                                          TransportFailure).reqs[1]
            entity == ServerApplies(remote[ValueString(state.id)], request.body)
        IN \E ans \in {JsonAnswer(200, entity), TransportFailure} :
            /\ Handled("Update", TeamResourceUpdate(client, plan, state, ans), ans,
                       plan, state.members)
            /\ remote' = IF ans.status = 200
                         THEN [remote EXCEPT ![ValueString(state.id)] = entity]
                         ELSE remote
    /\ UNCHANGED client

\* Delete against the storing server
StoredDelete ==
    /\ state # NoState
    /\ ValueString(state.id) \in DOMAIN remote
    /\ \E ans \in {TextAnswer(204, ""), TransportFailure} :
        /\ Handled("Delete", TeamResourceDelete(client, state, ans), ans, NoPlan,
                   MembersNull)
        /\ remote' = IF ans.status = 204
                     THEN [k \in DOMAIN remote \ {ValueString(state.id)} |->
                              remote[k]]
                     ELSE remote
    /\ UNCHANGED client

\* the description of a stored team is edited outside Terraform
EditedOutside ==
    /\ \E t \in DOMAIN remote, d \in RemoteDescriptions :
        /\ remote[t].description # d
        /\ remote' = [remote EXCEPT ![t].description = d]
    /\ UNCHANGED <<client, state, diags, sent, last>>

\* the provider is configured once, before any resource is handled
Configure ==
    /\ last.op = "Init"
    /\ \E data \in ProviderConfigs, env \in Environments :
        LET out == ProviderConfigure(data, env)
        IN /\ client' = out.client
           /\ diags' = [errors |-> out.errors, warnings |-> out.warnings]
           /\ last' = Last("Configure", out.errors = <<>>, NoAnswer, NoPlan,
                           [data |-> data, env |-> env], 0, MembersNull, NoErr,
                           NoVal)
    /\ UNCHANGED <<remote, state, sent>>

Init ==
    /\ client \in Clients
    /\ remote = {}
    /\ state = NoState
    /\ diags = [errors |-> <<>>, warnings |-> <<>>]
    /\ sent = <<>>
    /\ last = Last("Init", TRUE, NoAnswer, NoPlan, "", 0, MembersNull, NoErr, NoVal)

\* the lifecycle of one team resource
Next ==
    \/ ValidateConfig
    \/ Create
    \/ Read
    \/ Update
    \/ Delete
    \/ ImportState
    \/ DeletedOutside
    \/ CreatedOutside

Spec == Init /\ [][Next]_vars

\* the bulk and member operations, which no resource handler calls, called
\* directly on the client
NextClient ==
    \/ CallArchiveTeams
    \/ CallUnarchiveTeams
    \/ CallAddTeamMembers
    \/ CallRemoveTeamMembers
    \/ CallGetTeam
    \/ CallUpdateTeam

ClientSpec == Init /\ [][NextClient]_vars

\* every operation of the client, called directly and answered with any
\* status
NextOperations ==
    \/ CallCreateTeam
    \/ CallGetTeam
    \/ CallUpdateTeam
    \/ CallDeleteTeam
    \/ CallGetTeams
    \/ CallArchiveTeams
    \/ CallUnarchiveTeams
    \/ CallRestoreTeam
    \/ CallFetchTeamMembers
    \/ CallAddTeamMembers
    \/ CallRemoveTeamMembers

OperationSpec == Init /\ [][NextOperations]_vars

\* a client built directly by NewAtlassianClient, with or without an
\* organization id
InitDirect ==
    /\ client \in { NewAtlassianClient("tok", "", "legacy", "site-9", orgId,
                                        DefaultBaseURL) : orgId \in {"", "org-1"} }
    /\ remote = {}
    /\ state = NoState
    /\ diags = [errors |-> <<>>, warnings |-> <<>>]
    /\ sent = <<>>
    /\ last = Last("Init", TRUE, NoAnswer, NoPlan, "", 0, MembersNull, NoErr, NoVal)

\* the operations on one team, called on a client built directly
NextPaths ==
    \/ CallCreateTeam
    \/ CallGetTeam
    \/ CallUpdateTeam
    \/ CallDeleteTeam

PathSpec == InitDirect /\ [][NextPaths]_vars

\* the run of both instances and the run of each alone, after the provider
\* of each run built its client and before a resource is configured
InitInstances ==
    /\ client \in { [run \in {"both"} \cup Instances |-> c] : c \in Clients }
    /\ remote = {}
    /\ state = [run \in {"both"} \cup Instances |->
                   [i \in (IF run = "both" THEN Instances ELSE {run}) |->
                       [client |-> "nil", record |-> NoState,
                        call |-> [phase |-> "idle"]]]]
    /\ diags = [errors |-> <<>>, warnings |-> <<>>]
    /\ sent = <<>>
    /\ last = Last("Init", TRUE, NoAnswer, NoPlan, "", 0, MembersNull, NoErr, NoVal)

\* the handlers of two instances, running in parallel: the sending of a
\* request, its answer and the return of the handler of one instance are
\* interleaved in any order with those of the other
NextInstances ==
    \/ InstanceConfigure
    \/ InstanceCreate
    \/ InstanceRead
    \/ InstanceUpdate
    \/ InstanceDelete
    \/ InstanceAnswered
    \/ InstanceHandled

InstanceSpec == InitInstances /\ [][NextInstances]_vars

\* the storing server before any team is created
InitStored ==
    /\ client \in Clients
    /\ remote = [t \in {} |-> NoJson]
    /\ state = NoState
    /\ diags = [errors |-> <<>>, warnings |-> <<>>]
    /\ sent = <<>>
    /\ last = Last("Init", TRUE, NoAnswer, NoPlan, "", 0, MembersNull, NoErr, NoVal)

\* the lifecycle of one team against the storing server
NextStored ==
    \/ StoredCreate
    \/ StoredRead
    \/ StoredUpdate
    \/ StoredDelete
    \/ EditedOutside

StoredSpec == InitStored /\ [][NextStored]_vars

\* the paginated reads, called with any page request
NextPages ==
    \/ PageTeams
    \/ PageMembers

PageSpec == Init /\ [][NextPages]_vars

\* a tracked team that is deleted outside Terraform, updated and restored
\* by a direct call
NextRestore ==
    \/ Create
    \/ Update
    \/ DeletedOutside
    \/ CallRestoreTeam

RestoreSpec == Init /\ [][NextRestore]_vars

\* a team whose display name and description have any length
NextLengths ==
    \/ ValidateAnyLength
    \/ CreateAnyLength
    \/ UpdateAnyLength
    \/ Delete

LengthSpec == Init /\ [][NextLengths]_vars

\* the handlers of one team resource, whose team may be deleted outside
\* Terraform, and the operations of the client called directly while no
\* team is tracked, each answered with any status or not at all
NextAttempts ==
    \/ CreateAnyLength
    \/ Read
    \/ UpdateAnyLength
    \/ Delete
    \/ DeletedOutside
    \/ state = NoState /\ NextOperations

AttemptSpec == Init /\ [][NextAttempts]_vars

\* the provider before Configure: no client yet
InitProvider ==
    /\ client = NoClient
    /\ remote = {}
    /\ state = NoState
    /\ diags = [errors |-> <<>>, warnings |-> <<>>]
    /\ sent = <<>>
    /\ last = Last("Init", TRUE, NoAnswer, NoPlan, "", 0, MembersNull, NoErr, NoVal)

NextProvider ==
    \/ Configure

ProviderSpec == InitProvider /\ [][NextProvider]_vars

----------------------------------------------------------------------------
(* Properties.                                                             *)

\* the requests among sent that satisfy P
SentSuchThat(P(_)) == { i \in 1..Len(sent) : P(sent[i]) }

\* C1: when the GET of a Read is answered 404 the resource is removed from
\* the state and no error is reported; on a transport failure or any other
\* status than 200 and 404 Read reports an error and keeps the resource.
C1_ReadNotFoundRemoves ==
    last.op = "Read" =>
        /\ last.ans.status = 404 => (state = NoState /\ diags.errors = <<>>)
        /\ last.ans.status \notin {200, 404} =>
               (state # NoState /\ Len(diags.errors) = 1)

C1_Witness ==
    /\ last.op = "Read" /\ last.ans.status = 404
    /\ Len(sent) = 1 /\ sent[1].method = "GET"
    /\ state = NoState /\ diags.errors = <<>>

\* C2: a Delete whose DELETE request is answered 200, 204 or 404 reports no
\* error, so deleting an identifier that is already gone succeeds.
C2_DeleteIdempotent ==
    (last.op = "Delete" /\ last.ans.status \in {200, 204, 404}) =>
        (diags.errors = <<>> /\ state = NoState)

C2_Witness ==
    /\ last.op = "Delete" /\ last.ans.status = 404
    /\ Len(sent) = 1 /\ sent[1].method = "DELETE"
    /\ diags.errors = <<>> /\ state = NoState

\* C3: validation accepts exactly OPEN, MEMBER_INVITE, EXTERNAL and
\* ORG_ADMIN_MANAGED, a rejected value causes no request, and no creation
\* request carries a team type outside the four.
C3_TeamTypeClosedSet ==
    LET four == {"OPEN", "MEMBER_INVITE", "EXTERNAL", "ORG_ADMIN_MANAGED"}
    IN /\ last.op = "ValidateConfig" =>
              /\ last.ok <=> last.input \in four
              /\ ~last.ok => (sent = <<>> /\ diags.errors # <<>>)
       /\ \A i \in 1..Len(sent) :
              (sent[i].method = "POST" /\ "teamType" \in DOMAIN sent[i].body)
                  => sent[i].body.teamType \in four

C3_Witness ==
    /\ last.op = "ValidateConfig" /\ last.input = "CLOSED"
    /\ ~last.ok /\ sent = <<>> /\ diags.errors # <<>>

\* the member set a types.Set value declares
MemberIds(v) == IF v = MembersNull \/ v = MembersUnknown THEN {} ELSE v

MembersUrl(teamID, what) ==
    client.BaseURL \o "/public/teams/v1/org/" \o client.OrgId \o "/teams/"
        \o teamID \o "/members/" \o what

\* the account ids of the member requests of the last step to the url
MemberPayloads(url) ==
    { { sent[i].body.members[j].accountId : j \in 1..Len(sent[i].body.members) } :
        i \in SentSuchThat(LAMBDA r : r.url = url) }

\* C4: an Update with declared members D against last-known members R sends
\* exactly D \ R for addition and R \ D for removal, and sends no add and no
\* remove iff R = D.
C4_UpdateSendsMemberDiff ==
    (last.op = "Update" /\ last.ok /\ last.plan.members # MembersUnknown) =>
        LET D == MemberIds(last.plan.members)
            R == MemberIds(last.members)
            adds == MemberPayloads(MembersUrl(state.id, "add"))
            removes == MemberPayloads(MembersUrl(state.id, "remove"))
        IN /\ D \ R # {} => adds = {D \ R}
           /\ R \ D # {} => removes = {R \ D}
           /\ (adds = {} /\ removes = {}) <=> R = D

\* C5: a Create with a non-empty declared membership issues an add-members
\* call after the team is created, and the step succeeds with the record
\* saved whatever the members' fate.
C5_CreateAddsMembers ==
    (last.op = "Create" /\ last.ans.status \in {200, 201} /\ last.ans.decodes
         /\ last.plan # NoPlan /\ MemberIds(last.plan.members) # {}) =>
        /\ state # NoState /\ diags.errors = <<>>
        /\ MemberPayloads(MembersUrl(state.id, "add")) # {}

\* C6: the body of every PATCH has no key besides displayName and
\* description.
C6_UpdatePayloadKeys ==
    \A i \in 1..Len(sent) :
        sent[i].method = "PATCH" =>
            DOMAIN sent[i].body \subseteq {"displayName", "description"}

C6_Witness ==
    /\ last.op = "Update" /\ last.ok
    /\ last.plan.team_type = "EXTERNAL" /\ state.team_type = RemoteTeamType
    /\ Len(sent) = 1 /\ sent[1].method = "PATCH"
    /\ DOMAIN sent[1].body = {"displayName"}

\* C7: ArchiveTeams and UnarchiveTeams return an error without any request
\* for 0 or more than 100 team ids, and issue exactly one POST for a batch
\* of 1 to 100 ids.
C7_BulkBatchSize ==
    last.op \in {"ArchiveTeams", "UnarchiveTeams"} =>
        IF last.size = 0 \/ last.size > 100
        THEN ~last.ok /\ last.err # NoErr /\ sent = <<>>
        ELSE Len(sent) = 1 /\ sent[1].method = "POST"
             /\ Len(sent[1].body.teamIds) = last.size

C7_Witness ==
    /\ last.op = "ArchiveTeams" /\ last.size > 100
    /\ ~last.ok /\ sent = <<>>

\* C8: AddTeamMembers and RemoveTeamMembers return an error without any
\* request for 0 or more than 50 members.
C8_MemberBatchSize ==
    (last.op \in {"AddTeamMembers", "RemoveTeamMembers"}
         /\ (last.size = 0 \/ last.size > 50)) =>
        (~last.ok /\ sent = <<>>)

\* C9: a 200 answer of a bulk or member call with a non-empty success list
\* and a non-empty error list is a success that carries both lists, with one
\* warning per coded error.
C9_PartialFailureSurfaced ==
    (/\ last.op \in {"ArchiveTeams", "UnarchiveTeams", "AddTeamMembers"}
     /\ last.ans.status = 200 /\ last.ans.decodes /\ Len(sent) = 1
     /\ Len(last.ans.json.errors) > 0
     /\ Len(IF last.op = "AddTeamMembers" THEN last.ans.json.members
            ELSE last.ans.json.successfulTeamIds) > 0) =>
        /\ last.ok
        /\ Len(last.val.Errors) = Len(last.ans.json.errors)
        /\ Len(IF last.op = "AddTeamMembers" THEN last.val.Members
               ELSE last.val.SuccessfulTeamIds) > 0
        /\ Len(diags.warnings) = Len(last.ans.json.errors)

\* the answers on which the client call of a step returns an error
ClientFails(op, ans) ==
    CASE op = "Create" -> ans.status \notin {200, 201} \/ ~ans.decodes
      [] op = "Update" -> ans.status # 200 \/ ~ans.decodes
      [] op = "Delete" -> ans.status \notin {200, 204, 404}
      [] OTHER -> FALSE

\* C10: when the client call of a Create, Update or Delete fails, the step
\* reports an error and the tracked state is what it was before the step
\* (nothing, for a Create).
C10_FailedStepKeepsState ==
    [][ ClientFails(last'.op, last'.ans) =>
            /\ Len(diags'.errors) = 1
            /\ state' = state
            /\ last'.op = "Create" => state' = NoState ]_vars

C10_Witness ==
    /\ last.op = "Update" /\ last.ans.status = 403
    /\ Len(diags.errors) = 1 /\ state # NoState
    /\ Len(sent) = 1 /\ sent[1].method = "PATCH"

\* C11: after a Create whose POST is answered 200 or 201 with a team, the
\* saved record's id, organization_id, creator_id and state are the teamId,
\* organizationId, creatorId and state of the response.
C11_CreateAdoptsServerFields ==
    (last.op = "Create" /\ last.ok) =>
        LET team == DecodeTeamResponse(last.ans.json)
        IN /\ last.ans.status \in {200, 201}
           /\ state # NoState
           /\ state.id = team.TeamID
           /\ state.organization_id = team.OrganizationId
           /\ state.creator_id = team.CreatorId
           /\ state.state = team.State

C11_Witness ==
    /\ last.op = "Create" /\ last.ok /\ last.ans.status = 201
    /\ last.ans.json.teamId = "T1" /\ state.id = "T1"
    /\ state.organization_id = "org-1" /\ state.creator_id = "u1"
    /\ state.state = "ACTIVE"

\* C12: a Read whose GET is answered 200 with a team sets display_name,
\* description, team_type, organization_id, creator_id and state from the
\* response and leaves id, site_id and members as they were in the prior
\* state.
C12_ReadOverwritesEchoedOnly ==
    [][ (last'.op = "Read" /\ last'.ok /\ last'.ans.status = 200) =>
            LET team == DecodeTeamResponse(last'.ans.json)
            IN /\ state'.display_name = team.DisplayName
               /\ state'.description = team.Description
               /\ state'.team_type = team.TeamType
               /\ state'.organization_id = team.OrganizationId
               /\ state'.creator_id = team.CreatorId
               /\ state'.state = team.State
               /\ state'.id = state.id
               /\ state'.site_id = state.site_id
               /\ state'.members = state.members ]_vars

C12_Witness ==
    /\ last.op = "Read" /\ last.ok /\ last.ans.status = 200
    /\ state.display_name = RemoteDisplayName /\ state.state = RemoteState
    /\ state.site_id = "site-1" /\ state.members = {"A", "B"}
    /\ last.ans.json.teamId # state.id

\* C13: after an Update whose PATCH is answered 200 with a team, the saved
\* display_name, description, team_type, organization_id, creator_id and
\* state are those of the response.
C13_UpdateAdoptsServerFields ==
    (last.op = "Update" /\ last.ok) =>
        LET team == DecodeTeamResponse(last.ans.json)
        IN /\ state.display_name = team.DisplayName
           /\ state.description = team.Description
           /\ state.team_type = team.TeamType
           /\ state.organization_id = team.OrganizationId
           /\ state.creator_id = team.CreatorId
           /\ state.state = team.State

\* C14: a Delete whose DELETE request is answered 410 reports no error and
\* the resource leaves the state, as for 404.
C14_DeleteGoneSucceeds ==
    (last.op = "Delete" /\ last.ans.status = 410) =>
        (diags.errors = <<>> /\ state = NoState)

\* C16: ImportState saves the supplied id and leaves every other attribute
\* null; a Read that follows it and is answered 200 with a team fills
\* display_name, description, team_type, organization_id, creator_id and
\* state from the response and keeps the imported id.
C16_ImportSeedsIdOnly ==
    [][ /\ last'.op = "ImportState" =>
               /\ state'.id = last'.input
               /\ \A a \in DOMAIN state' \ {"id", "members"} : state'[a] = Null
               /\ state'.members = MembersNull
        /\ (last.op = "ImportState" /\ last'.op = "Read" /\ last'.ok
               /\ last'.ans.status = 200) =>
               LET team == DecodeTeamResponse(last'.ans.json)
               IN /\ state'.id = last.input
                  /\ state'.display_name = team.DisplayName
                  /\ state'.description = team.Description
                  /\ state'.team_type = team.TeamType
                  /\ state'.organization_id = team.OrganizationId
                  /\ state'.creator_id = team.CreatorId
                  /\ state'.state = team.State ]_vars

C16_Witness ==
    /\ last.op = "Read" /\ last.ok /\ last.ans.status = 200
    /\ state.id = "T2" /\ state.members = MembersNull /\ state.site_id = Null
    /\ state.display_name = RemoteDisplayName /\ state.creator_id = "u1"
    /\ state.state = RemoteState

\* C15: an Update whose PATCH is answered 404 reports one error and leaves
\* the resource in the state as it was, and a RestoreTeam answered 404
\* returns an error.
C15_NotFoundIsFatal ==
    [][ /\ (last'.op = "Update" /\ last'.ans.status = 404) =>
               /\ Len(diags'.errors) = 1
               /\ state' # NoState
               /\ state' = state
        /\ (last'.op = "RestoreTeam" /\ last'.ans.status = 404) =>
               /\ ~last'.ok
               /\ last'.err = "team not found for restore: " \o last'.input ]_vars

C15_Witness ==
    /\ last.op = "Update" /\ last.ans.status = 404
    /\ Len(sent) = 1 /\ sent[1].method = "PATCH"
    /\ Len(diags.errors) = 1 /\ state # NoState /\ state.id \notin remote

\* C17: with a non-empty API token, a non-empty organization and no org_id
\* in the configuration or the environment, Configure reports no error and
\* hands out a client whose team paths use the organization name.
C17_OrganizationSuffices ==
    (/\ last.op = "Configure"
     /\ UnknownErrors(last.input.data) = <<>>
     /\ Resolve(last.input.data.api_token, last.input.env.api_token) # ""
     /\ Resolve(last.input.data.organization, last.input.env.organization) # ""
     /\ last.input.data.org_id = Null /\ last.input.env.org_id = "") =>
        /\ diags.errors = <<>>
        /\ client # NoClient
        /\ getTeamAPIPath(client, "/teams/") =
               "/public/teams/v1/org/"
                   \o Resolve(last.input.data.organization,
                              last.input.env.organization)
                   \o "/teams/"

\* C18: each of API token, email, organization, org id, site id and base
\* URL of the client Configure builds is the configured value when the
\* attribute is set (not null; an unknown base URL has the empty value),
\* otherwise the environment value, and an empty base URL is replaced by
\* https://api.atlassian.com.
C18_ConfigurationResolution ==
    (last.op = "Configure" /\ client # NoClient) =>
        LET data == last.input.data
            env == last.input.env
            used(a) == IF data[a] # Null
                       THEN (IF data[a] = Unknown THEN "" ELSE data[a])
                       ELSE env[a]
        IN /\ client.APIToken = used("api_token")
           /\ client.Email = used("email")
           /\ client.Organization = used("organization")
           /\ client.OrgId = used("org_id")
           /\ client.SiteId = used("site_id")
           /\ client.BaseURL = IF used("base_url") = ""
                                THEN "https://api.atlassian.com"
                                ELSE used("base_url")

C18_Witness ==
    /\ last.op = "Configure" /\ client # NoClient
    /\ last.input.data.org_id = "org-1" /\ last.input.env.org_id = "env-org"
    /\ client.OrgId = "org-1"
    /\ last.input.data.organization = Null /\ client.Organization = "env-company"
    /\ last.input.data.base_url = Null /\ last.input.env.base_url = ""
    /\ client.BaseURL = "https://api.atlassian.com"

\* C19: no POST or PATCH of a team carries a displayName shorter than 1 or
\* longer than 250 characters or a description longer than 360 characters.
C19_LengthsEnforced ==
    \A i \in 1..Len(sent) :
        sent[i].method \in {"POST", "PATCH"} =>
            /\ "displayName" \in DOMAIN sent[i].body =>
                   Len(sent[i].body.displayName) \in 1..250
            /\ "description" \in DOMAIN sent[i].body =>
                   Len(sent[i].body.description) <= 360

\* the class the error taxonomy puts the outcome of a request into
OutcomeClass(ans) ==
    CASE ans.status = 0 -> "TransportError"
      [] ans.status = 404 -> "NotFound"
      [] ans.status \in {400, 422} -> "ValidationError"
      [] ans.status = 403 -> "Forbidden"
      [] ans.status = 410 -> "Gone"
      [] ans.status = 413 -> "PayloadTooLarge"
      [] ans.status = 415 -> "UnsupportedMediaType"
      [] OTHER -> "UnexpectedStatus"

\* the kind of the error a GetTeam or UpdateTeam call returned: which of
\* the client's error constructions built it
ErrorKind(l) ==
    LET doing == IF l.op = "GetTeam" THEN "getting" ELSE "updating"
    IN IF l.err = "team not found: " \o l.input THEN "team not found"
       ELSE IF l.err = "error " \o doing \o " team: " \o makeRequestError(l.ans)
       THEN "error making request"
       ELSE IF l.err = "API error " \o doing \o " team: "
                          \o StatusLine(l.ans.status) \o " - " \o l.ans.raw
       THEN "API error"
       ELSE "error decoding response"

\* C20: two failed calls of GetTeam or UpdateTeam whose outcomes are in
\* different classes of the taxonomy return errors of different kinds.
C20_DistinctErrorKinds ==
    [][ (/\ last.op \in {"GetTeam", "UpdateTeam"}
         /\ last'.op \in {"GetTeam", "UpdateTeam"}
         /\ last.ans.status # 200 /\ last'.ans.status # 200
         /\ OutcomeClass(last.ans) # OutcomeClass(last'.ans)) =>
            /\ ~last.ok /\ ~last'.ok
            /\ ErrorKind(last) # ErrorKind(last') ]_vars

\* the operations of the client
ClientOperations ==
    {"CreateTeam", "GetTeam", "UpdateTeam", "DeleteTeam", "GetTeams",
     "ArchiveTeams", "UnarchiveTeams", "RestoreTeam", "FetchTeamMembers",
     "AddTeamMembers", "RemoveTeamMembers"}

\* the statuses the interface lists as the success of an operation
SuccessStatuses(op) ==
    CASE op = "CreateTeam" -> {200, 201}
      [] op = "DeleteTeam" -> {200, 204, 404}
      [] op = "RestoreTeam" -> {204}
      [] OTHER -> {200}

\* the operations whose success answer carries an entity to decode
DecodingOperations == ClientOperations \ {"DeleteTeam", "RestoreTeam"}

\* C21: an operation of the client that was answered returns an error on
\* every status outside its success statuses (Create 200 and 201; Delete
\* 200, 204 and 404; Restore 204; every other operation 200) and returns no
\* error on a success status whose body, if the operation reads one, decodes.
C21_SuccessStatuses ==
    (last.op \in ClientOperations /\ Len(sent) = 1 /\ last.ans.status # 0) =>
        /\ last.ans.status \notin SuccessStatuses(last.op) =>
               (~last.ok /\ last.err # NoErr /\ last.val = NoVal)
        /\ (/\ last.ans.status \in SuccessStatuses(last.op)
            /\ last.op \in DecodingOperations => last.ans.decodes) =>
               (last.ok /\ last.err = NoErr)

C21_Witness ==
    /\ last.op = "RestoreTeam" /\ last.ans.status = 200
    /\ Len(sent) = 1 /\ sent[1].method = "POST"
    /\ ~last.ok /\ last.err = "API error restoring team: 200 OK - " \o FailureText

\* the handlers that call the client, and the operation each calls
LifecycleOperations == {"Create", "Read", "Update", "Delete"}

ClientOperationOf(op) ==
    CASE op = "Create" -> "CreateTeam"
      [] op = "Read" -> "GetTeam"
      [] op = "Update" -> "UpdateTeam"
      [] op = "Delete" -> "DeleteTeam"

\* C22: a handler of the resource and an operation of the client called
\* directly each issue at most one request.  When that request fails (the
\* transport fails or the status is outside the success statuses of the
\* operation) nothing more is sent and the failure is reported at once: an
\* operation of the client returns the error and no value; a handler
\* reports exactly one error diagnostic, except that Read reports the
\* not-found error of GetTeam on 404 by removing the record.
C22_NoRetry ==
    /\ Len(sent) <= 1
    /\ (/\ last.op \in ClientOperations
        /\ Len(sent) = 1
        /\ last.ans.status \notin SuccessStatuses(last.op)) =>
           (~last.ok /\ last.err # NoErr /\ last.val = NoVal)
    /\ (/\ last.op \in LifecycleOperations
        /\ last.ans.status \notin SuccessStatuses(ClientOperationOf(last.op))) =>
           /\ Len(sent) = 1
           /\ IF last.op = "Read" /\ last.ans.status = 404
              THEN state = NoState /\ diags.errors = <<>>
              ELSE ~last.ok /\ Len(diags.errors) = 1

C22_Witness ==
    /\ last.op = "Update" /\ last.ans = TransportFailure
    /\ state # NoState
    /\ Len(sent) = 1 /\ sent[1].method = "PATCH"
    /\ ~last.ok /\ Len(diags.errors) = 1

\* C23: every request carries the bearer credential of the client's API
\* token, Content-Type application/json and one Accept value: */* for the
\* fetch, add and remove calls of members, application/json otherwise.
C23_RequestHeaders ==
    \A i \in 1..Len(sent) :
        /\ DOMAIN sent[i].headers = {"Authorization", "ContentType", "Accept"}
        /\ sent[i].headers.Authorization = "Bearer " \o client.APIToken
        /\ sent[i].headers.ContentType = "application/json"
        /\ sent[i].headers.Accept =
               IF last.op \in {"FetchTeamMembers", "AddTeamMembers",
                               "RemoveTeamMembers"}
               THEN "*/*" ELSE "application/json"

C23_Witness ==
    /\ last.op = "FetchTeamMembers" /\ Len(sent) = 1
    /\ sent[1].headers.Accept = "*/*"
    /\ sent[1].headers.Authorization = "Bearer tok"

\* the url the interface gives the request of an operation on one team
\* through client c: X is the organization id, the legacy name when it is
\* empty
TeamUrl(c, l) ==
    LET X == IF c.OrgId # "" THEN c.OrgId ELSE c.Organization
        teams == c.BaseURL \o "/public/teams/v1/org/" \o X \o "/teams/"
    IN CASE l.op = "CreateTeam" -> teams
         [] l.op = "GetTeam" ->
              teams \o l.input
                  \o (IF c.SiteId # "" THEN "?siteId=" \o c.SiteId ELSE "")
         [] OTHER -> teams \o l.input

\* C24: the path of every request of an operation on one team is
\* /public/teams/v1/org/X/teams/... where X is the organization id of the
\* client, or the legacy organization name when the id is empty, and no
\* operation changes the client, so X is the same for every call.
C24_OrganizationPath ==
    [][ /\ client' = client
        /\ \A i \in 1..Len(sent') : sent'[i].url = TeamUrl(client, last') ]_vars

C24_Witness ==
    /\ client.OrgId = "" /\ last.op = "UpdateTeam" /\ last.input = "T1"
    /\ Len(sent) = 1
    /\ sent[1].url = "https://api.atlassian.com/public/teams/v1/org/legacy/teams/T1"

\* the url the interface gives a GetTeams request: the site and the cursor
\* when they are not empty, the size when it is positive, at most 300
TeamsUrl(c, orgID, siteId, size, cursor) ==
    LET parts == << IF siteId # "" THEN "siteId=" \o siteId ELSE "",
                    IF size >= 1
                    THEN "size=" \o ToString(IF size > 300 THEN 300 ELSE size)
                    ELSE "",
                    IF cursor # "" THEN "cursor=" \o cursor ELSE "" >>
        present == SelectSeq(parts, LAMBDA part : part # "")
    IN c.BaseURL \o "/public/teams/v1/org/" \o orgID \o "/teams"
           \o (IF present = <<>> THEN "" ELSE "?" \o Join(present, "&"))

\* C25: GetTeams sends size=300 for every requested size above 300, sends
\* the sizes 1 to 300 unchanged (and no size when none is requested), and
\* sends the cursor and the siteId exactly when they are not empty.
C25_TeamsPageSizeClamped ==
    last.op = "GetTeams" =>
        /\ Len(sent) = 1
        /\ sent[1].method = "GET"
        /\ sent[1].url = TeamsUrl(client, client.OrgId, last.input.siteId,
                                  last.size, last.input.cursor)

C25_Witness ==
    /\ last.op = "GetTeams" /\ last.size > 300
    /\ last.input = [siteId |-> "site-1", cursor |-> "c1"]
    /\ Len(sent) = 1
    /\ sent[1].url = "https://api.atlassian.com/public/teams/v1/org/org-1/teams"
                        \o "?siteId=site-1&size=300&cursor=c1"

\* C26 as stated: for every requested page size above 50 the pagination
\* payload of FetchTeamMembers carries the page size 50, and it never
\* carries a page size above 50.
C26_MembersPageSizeClamped ==
    last.op = "FetchTeamMembers" =>
        /\ Len(sent) = 1
        /\ last.size > 50 =>
               ("first" \in DOMAIN sent[1].body /\ sent[1].body.first = 50)
        /\ "first" \in DOMAIN sent[1].body => sent[1].body.first <= 50

\* C26, corrected: the pagination payload of FetchTeamMembers carries the
\* requested page size exactly when it is between 1 and 50; for every
\* requested page size above 50 it carries no page size at all (the default
\* of the server applies), so it never carries a page size above 50.
C26_MembersPageSizeDropped ==
    last.op = "FetchTeamMembers" =>
        /\ Len(sent) = 1
        /\ "first" \in DOMAIN sent[1].body <=> last.size \in 1..50
        /\ "first" \in DOMAIN sent[1].body => sent[1].body.first = last.size
        /\ "after" \in DOMAIN sent[1].body <=> last.input.after # ""

C26_Witness ==
    /\ last.op = "FetchTeamMembers" /\ last.size > 50
    /\ Len(sent) = 1 /\ sent[1].method = "POST"
    /\ "first" \notin DOMAIN sent[1].body

\* what holds of the run of both whether or not the instances hold the same
\* client pointer, also while a handler of the other instance waits for
\* its answer: the client of every run is as its provider built it, the
\* record of each instance is the record of its run alone, and a handler
\* that sent its request sent what it sent in its run alone
RunsAlike ==
    /\ \A run \in DOMAIN client : client[run] \in Clients
    /\ \A i \in Instances : state["both"][i].record = state[i][i].record
    /\ last.op # "Init" => sent = last.val

C28_UpdateRecordsDeclared ==
    (last.op = "Update" /\ last.ok) =>
        /\ state.display_name = last.plan.display_name
        /\ state.description = last.plan.description

\* the method and the url of the request of a Read, Update or Delete of the
\* team tracked under id
TrackedRequest(op, id) ==
    LET team == client.BaseURL \o "/public/teams/v1/org/" \o client.OrgId
                    \o "/teams/" \o id
    IN CASE op = "Read" ->
              [method |-> "GET",
               url |-> team \o (IF client.SiteId # ""
                                THEN "?siteId=" \o client.SiteId ELSE "")]
         [] op = "Update" -> [method |-> "PATCH", url |-> team]
         [] op = "Delete" -> [method |-> "DELETE", url |-> team]

\* C29: the tracked id is set only by Create (to the teamId of the answer)
\* and by ImportState (to the id supplied); a Read or an Update, failed or
\* not, that keeps the record keeps its id, and the GET, PATCH or DELETE of
\* a tracked record goes to the url of that id.
C29_IdentifierStable ==
    [][ /\ (state' # NoState /\ (state = NoState \/ state'.id # state.id)) =>
               /\ last'.op \in {"Create", "ImportState"}
               /\ last'.op = "Create" => state'.id = last'.ans.json.teamId
               /\ last'.op = "ImportState" => state'.id = last'.input
        /\ (last'.op \in {"Read", "Update", "Delete"} /\ state # NoState) =>
               /\ Len(sent') = 1
               /\ LET request == TrackedRequest(last'.op, state.id)
                  IN /\ sent'[1].method = request.method
                     /\ sent'[1].url = request.url ]_vars

C29_Witness ==
    /\ last.op = "Read" /\ last.ok /\ state # NoState
    /\ last.ans.json.teamId # state.id
    /\ Len(sent) = 1 /\ sent[1].url = TrackedRequest("Read", state.id).url

\* C30: the GET of a Read that follows the Create of a resource carries the
\* siteId query parameter exactly when the creation payload carried a
\* siteId, with the same value.
C30_SiteScopingConsistent ==
    [][ (/\ last.op = "Create" /\ last.ok
         /\ last'.op = "Read" /\ Len(sent) = 1 /\ Len(sent') = 1) =>
            sent'[1].url =
                client.BaseURL \o "/public/teams/v1/org/" \o client.OrgId
                    \o "/teams/" \o state.id
                    \o (IF "siteId" \in DOMAIN sent[1].body
                        THEN "?siteId=" \o sent[1].body.siteId ELSE "") ]_vars

====
